---- MODULE Spec2Model ----
(***************************************************************************)
(* A model of the pippin partition engine (src/src/detail/part.rs): the    *)
(* in-memory state graph (states, tips), the unsaved commit queue, the     *)
(* snapshot policy, and the files a PartIO provider holds.                 *)
(*                                                                         *)
(* Checksums.  A Sum is modelled as a finite set of hash atoms.  Hashing   *)
(* a value yields the singleton of an atom naming that value: an element   *)
(* checksum names the element's id and payload, a metadata checksum names  *)
(* the place its input has in the table of the inputs hashed so far (an    *)
(* ideal, collision-free hash).  XOR of sums is the symmetric difference   *)
(* of the atom sets and the zero sum is the empty set.  This is the free   *)
(* GF(2) vector space over the hashed values, so every XOR identity the    *)
(* code relies on (a ^ a = 0, commutativity, associativity) is computed,   *)
(* not assumed.                                                            *)
(***************************************************************************)
EXTENDS Integers, Sequences, FiniteSets, TLC

\* ------------------------------------------------------------------ bounds
\* Largest number of states (and of unsaved commits) the general model holds.
MaxStates == 3
\* Largest second the clock reaches.
MaxClock == 1
\* Largest number of log files the general model lets a provider hold.
MaxLogs == 2
\* Number of pushes of the snapshot-rotation scenario (one insert each).
MaxChain == 32
\* Largest snapshot number of the models that write snapshots directly.
MaxSnaps == 2
\* Most commits pushed in the model of open and load.
MaxPushes == 3
\* Most states of the history graphs that are merged, and most commits
\* pushed while they are built.
MaxDag == 5

\* ------------------------------------------------------- program constants
\* SnapshotPolicy::snapshot: commits * 5 + edits > 150
CommitWeight == 5
SnapshotThreshold == 150
\* SnapshotPolicy::require
RequireCommits == 1000
\* Partition::write, Partition::write_snapshot: give up past this number
SlotLimit == 1000000

EltIds == {1, 2}
Payloads == {"a", "b"}
RepoName == "repo"

\* ------------------------------------------------------------------- sums
NoExtra == [tag |-> "None", text |-> ""]
TextExtra(t) == [tag |-> "Text", text |-> t]

\* The element of a one-element set: in The({F(x) : x \in {e}}) the value
\* of e is computed once, however often F uses x
The(S) == CHOOSE x \in S : TRUE

Zero == {}
Xor(a, b) == (a \ b) \cup (b \ a)

\* Sum::elt_sum: H(EltId || payload)
EltSum(id, data) == {<<"e", id, data>>}

\* What Sum::state_meta_sum hashes: the parents and the metadata fields
Pre(parents, meta) == [parents |-> parents, meta |-> meta]

\* The hash of pre, given the table tab of the inputs hashed so far: the
\* place of pre in tab, or the next free place when pre is new
TokenOf(tab, pre) ==
    IF \E i \in 1..Len(tab) : tab[i] = pre
    THEN CHOOSE i \in 1..Len(tab) : tab[i] = pre
    ELSE Len(tab) + 1

\* The table once pre was hashed
Register(tab, pre) ==
    IF \E i \in 1..Len(tab) : tab[i] = pre THEN tab ELSE Append(tab, pre)

\* Sum::state_meta_sum: a hash over the state's metadata fields
StateMetaSum(parents, meta, tab) == {<<"m", TokenOf(tab, Pre(parents, meta)), "">>}

\* XOR of the checksums of all elements of an element map: an atom is in
\* the XOR of a family of sums when an odd number of them hold it
XorAll(elts) ==
    {a \in UNION {EltSum(e[1], e[2]) : e \in elts} :
        Cardinality({e \in elts : a \in EltSum(e[1], e[2])}) % 2 = 1}

\* ----------------------------------------------------------- element maps
\* An element map is a set of <<id, payload>> pairs with unique ids.
Ids(elts) == {e[1] : e \in elts}
Has(elts, id) == id \in Ids(elts)
Get(elts, id) == (CHOOSE e \in elts : e[1] = id)[2]

\* ---------------------------------------------------------------- states
BlankMeta == [number |-> 0, ts |-> 0, extra |-> NoExtra]

\* PartState::new: the blank state; its state-sum is zero
BlankState ==
    [statesum |-> Zero, metasum |-> Zero, parents |-> <<>>,
     elts |-> {}, meta |-> BlankMeta]

\* PartState::clone_mut
CloneMut(s) ==
    [parent |-> s.statesum, elt_sum |-> Xor(s.statesum, s.metasum), elts |-> s.elts]

\* MutPartState insert / remove / replace: the running elt_sum is updated
MutInsert(ms, id, data) ==
    [ms EXCEPT !.elt_sum = Xor(@, EltSum(id, data)),
               !.elts = @ \cup {<<id, data>>}]
MutRemove(ms, id) ==
    [ms EXCEPT !.elt_sum = Xor(@, EltSum(id, Get(ms.elts, id))),
               !.elts = @ \ {<<id, Get(ms.elts, id)>>}]
MutReplace(ms, id, data) == MutInsert(MutRemove(ms, id), id, data)

\* PartState::from_mut
FromMut(ms, parents, meta, tab) ==
    LET msum == StateMetaSum(parents, meta, tab)
    IN [statesum |-> Xor(ms.elt_sum, msum), metasum |-> msum,
        parents |-> parents, elts |-> ms.elts, meta |-> meta]

\* --------------------------------------------------------------- commits
Change(id, op, data) == [id |-> id, op |-> op, data |-> data, new_id |-> 0]

\* Commit::from_diff: the changes turning the parent's map into the new one
DiffChanges(old, new) ==
    {Change(id, "Delete", "") : id \in Ids(old) \ Ids(new)}
    \cup {Change(id, "Insert", Get(new, id)) : id \in Ids(new) \ Ids(old)}
    \cup {Change(id, "Replace", Get(new, id)) :
            id \in {i \in Ids(old) \cap Ids(new) : Get(old, i) # Get(new, i)}}

NoCommit == [statesum |-> Zero, parents |-> <<>>, changes |-> {},
             meta |-> BlankMeta]

\* Commit::from_diff(parent, state, extra): NoCommit stands for None
FromDiff(parent, ms, extra, now, tab) ==
    LET changes == DiffChanges(parent.elts, ms.elts)
        parents == <<parent.statesum>>
        meta == [number |-> parent.meta.number + 1, ts |-> now, extra |-> extra]
    IN IF changes = {} THEN NoCommit
       ELSE [statesum |-> Xor(ms.elt_sum, StateMetaSum(parents, meta, tab)),
             parents |-> parents, changes |-> changes, meta |-> meta]

\* One change applies to a map when its precondition holds
Applies(elts, c) ==
    CASE c.op = "Insert" -> ~Has(elts, c.id)
      [] c.op = "Moved" -> ~Has(elts, c.id)
      [] OTHER -> Has(elts, c.id)

ApplyChange(ms, c) ==
    CASE c.op = "Insert" -> MutInsert(ms, c.id, c.data)
      [] c.op = "Replace" -> MutReplace(ms, c.id, c.data)
      [] c.op = "Delete" -> MutRemove(ms, c.id)
      [] c.op = "MovedOut" -> MutRemove(ms, c.id)
      [] OTHER -> ms

RECURSIVE ApplyChanges(_, _)
ApplyChanges(ms, changes) ==
    IF changes = {} THEN ms
    ELSE The({The({ApplyChanges(m, rest) :
                        m \in {ApplyChange(ms, c)}, rest \in {changes \ {c}}}) :
                c \in {CHOOSE x \in changes : TRUE}})

\* Commit::apply(parent): [ok, state]; fails when a change does not apply
\* or the state-sum produced differs from the commit's
CommitApply(commit, parent, tab) ==
    LET ms == ApplyChanges(CloneMut(parent), commit.changes)
        st == FromMut(ms, commit.parents, commit.meta, tab)
    IN IF \E c \in commit.changes : ~Applies(parent.elts, c)
       THEN [ok |-> FALSE, state |-> BlankState]
       ELSE [ok |-> st.statesum = commit.statesum, state |-> st]

\* ------------------------------------------------------------ I/O provider
\* A provider is a record [ss, cl]: ss maps the numbers of the snapshot
\* files that exist to their content, cl maps the <<ss_num, cl_num>> pairs
\* of the log files that exist to theirs.
\* The partition id of the provider
PartIdNum == 1

MaxOf(S) == CHOOSE x \in S : \A y \in S : y <= x

\* PartIO::ss_len: one greater than the number of the latest snapshot or
\* log file found
SsLen(io) ==
    LET nums == DOMAIN io.ss \cup {k[1] : k \in DOMAIN io.cl}
    IN IF nums = {} THEN 0 ELSE MaxOf(nums) + 1

\* PartIO::ss_cl_len: one greater than the number of the last log file of ss
SsClLen(io, ss) ==
    LET nums == {k[2] : k \in {x \in DOMAIN io.cl : x[1] = ss}}
    IN IF nums = {} THEN 0 ELSE MaxOf(nums) + 1

\* A variant of the retry loops that takes the first number tried
FirstFree_NoRetry(taken, n) == n

RECURSIVE FirstFree(_, _)
\* The retry loops of write and write_snapshot: the first number from n on
\* that is not taken
FirstFree(taken, n) ==
    IF n \in taken THEN The({FirstFree(taken, m) : m \in {n + 1}}) ELSE n

\* FileHeader as written by write_head
Header(ftype, name, pid) == [ftype |-> ftype, name |-> name, part_id |-> pid]

\* --------------------------------------------------------- snapshot codec
\* write_snapshot: the elements, each with its checksum, the element count
\* twice, and the state-sum computed as the XOR of the element checksums.
\* intact is FALSE for a file whose write stopped part-way.
SnapshotBytes(state, name, pid, intact) ==
    [head |-> Header("PIPPINSS", name, pid),
     elements |-> {<<e[1], e[2], EltSum(e[1], e[2])>> : e \in state.elts},
     num_elts |-> Cardinality(state.elts),
     num_elts2 |-> Cardinality(state.elts),
     statesum |-> XorAll(state.elts),
     intact |-> intact]

\* read_snapshot: [ok, state]; every element checksum, the repeated count,
\* the state-sum and the whole-file checksum are verified
ReadSnapshot(f) ==
    LET elts == {<<e[1], e[2]>> : e \in f.elements}
        good == /\ f.intact
                /\ \A e \in f.elements : e[3] = EltSum(e[1], e[2])
                /\ f.num_elts = Cardinality(f.elements)
                /\ f.num_elts2 = f.num_elts
                /\ f.statesum = XorAll(elts)
    IN [ok |-> good,
        state |-> [statesum |-> f.statesum, metasum |-> Zero,
                   parents |-> <<>>, elts |-> elts, meta |-> BlankMeta]]

\* -------------------------------------------------------- commit-log codec
\* start_log followed by write_commit of each commit: a log file holds the
\* commits written completely, in order, and after them the bytes of a
\* commit whose write stopped part-way (torn), if any.
LogBytes(name, pid, commits, torn) ==
    [head |-> Header("PIPPINCL", name, pid), commits |-> commits, torn |-> torn]

\* read_log: [ok, commits]; end of file at a commit boundary ends the log,
\* a torn commit is a read error after the complete ones were received
ReadLog(f) == [ok |-> f.torn = <<>>, commits |-> f.commits]

\* ------------------------------------------------------- snapshot policy
\* SnapshotPolicy::snapshot
PolicySnapshot(p) == p.commits * CommitWeight + p.edits > SnapshotThreshold

\* -------------------------------------------------------------- partition
\* A partition is a record [states, tips, unsaved, ss_num, commits, edits,
\* repo_name]; states is the set of PartState records, keyed by statesum.
Range(seq) == {seq[i] : i \in 1..Len(seq)}
Sums(sts) == {s.statesum : s \in sts}
Contains(sts, sum) == sum \in Sums(sts)
StateOf(sts, sum) == CHOOSE s \in sts : s.statesum = sum

\* HashIndexed::insert: a value whose key is present is not inserted again
InsertState(sts, st) == IF Contains(sts, st.statesum) THEN sts ELSE sts \cup {st}

\* Partition::open; tab is the table of the inputs hashed so far, which
\* the partition's record carries along
OpenPart ==
    [states |-> {}, tips |-> {}, unsaved |-> <<>>, ss_num |-> 0,
     commits |-> 0, edits |-> 0, repo_name |-> "", tab |-> <<>>,
     part_id |-> PartIdNum]

\* A variant of is_ready that is true whenever there is a tip
IsReady_AnyTip(p) == Cardinality(p.tips) > 0
\* Partition::is_ready
IsReady(p) == Cardinality(p.tips) = 1
\* Partition::merge_required
MergeRequired(p) == Cardinality(p.tips) > 1
\* Partition::is_loaded
IsLoaded(p) == Cardinality(p.tips) > 0

\* A variant of tip_key that picks a tip when there are several
TipKey_AnyTip(p) ==
    IF p.tips # {}
    THEN [ok |-> TRUE, err |-> "", key |-> CHOOSE t \in p.tips : TRUE]
    ELSE [ok |-> FALSE, err |-> "NotReady", key |-> Zero]

\* Partition::tip_key: [ok, key] or the TipError
TipKey(p) ==
    IF Cardinality(p.tips) = 1
    THEN [ok |-> TRUE, err |-> "", key |-> CHOOSE t \in p.tips : TRUE]
    ELSE IF p.tips = {}
         THEN [ok |-> FALSE, err |-> "NotReady", key |-> Zero]
         ELSE [ok |-> FALSE, err |-> "MergeRequired", key |-> Zero]

\* Partition::tip: [ok, err, state]; unwrap panics when the tip's sum is not
\* a key of states
Tip(p) ==
    LET k == TipKey(p)
    IN IF ~k.ok THEN [ok |-> FALSE, err |-> k.err, state |-> BlankState]
       ELSE IF ~Contains(p.states, k.key)
       THEN [ok |-> FALSE, err |-> "Panic", state |-> BlankState]
       ELSE [ok |-> TRUE, err |-> "", state |-> StateOf(p.states, k.key)]

\* A variant of add_pair's tips that leaves the parents among the tips
AddPairTips_DropParentRemoval(tps, state) == tps \cup {state.statesum}
\* Partition::add_pair, the tips: the parents leave, the new state enters
AddPairTips(tps, state) == (tps \ Range(state.parents)) \cup {state.statesum}

\* A variant of add_pair's queue that puts the commit at the front
AddPairQueue_PushFront(q, commit) == <<commit>> \o q
\* Partition::add_pair, the queue: unsaved.push_back(commit)
AddPairQueue(q, commit) == Append(q, commit)

\* A variant of add_pair that counts one edit for every commit
AddPair_OneEditEach(p, commit, state) ==
    [p EXCEPT !.commits = @ + 1,
              !.edits = @ + 1,
              !.unsaved = AddPairQueue(@, commit),
              !.tips = AddPairTips(@, state),
              !.states = InsertState(@, state),
              !.tab = Register(@, Pre(commit.parents, commit.meta))]

\* Partition::add_pair
AddPair(p, commit, state) ==
    [p EXCEPT !.commits = @ + 1,
              !.edits = @ + Cardinality(commit.changes),
              !.unsaved = AddPairQueue(@, commit),
              !.tips = AddPairTips(@, state),
              !.states = InsertState(@, state),
              !.tab = Register(@, Pre(commit.parents, commit.meta))]

\* A variant of push_commit without the test for a known statesum
PushCommit_NoClashCheck(p, commit) ==
    IF ~Contains(p.states, commit.parents[1])
    THEN [p |-> p, ret |-> "NoParent"]
    ELSE LET r == CommitApply(commit, StateOf(p.states, commit.parents[1]), p.tab)
         IN IF ~r.ok THEN [p |-> p, ret |-> "PatchErr"]
            ELSE [p |-> AddPair(p, commit, r.state), ret |-> "Ok"]

\* Partition::push_commit: [p, ret]
PushCommit(p, commit) ==
    IF Contains(p.states, commit.statesum)
    THEN [p |-> p, ret |-> "SumClash"]
    ELSE IF ~Contains(p.states, commit.parents[1])
    THEN [p |-> p, ret |-> "NoParent"]
    ELSE LET r == CommitApply(commit, StateOf(p.states, commit.parents[1]), p.tab)
         IN IF ~r.ok THEN [p |-> p, ret |-> "PatchErr"]
            ELSE [p |-> AddPair(p, commit, r.state), ret |-> "Ok"]

\* A variant of push_state without the test for an unchanged element sum
PushState_NoSumCheck(p, ms, extra, now) ==
    IF ~Contains(p.states, ms.parent) THEN [p |-> p, ret |-> "NoParent"]
    ELSE LET parent == StateOf(p.states, ms.parent)
             d == FromDiff(parent, ms, extra, now, p.tab)
             c == [d EXCEPT !.parents = <<parent.statesum>>,
                            !.meta = [number |-> parent.meta.number + 1,
                                      ts |-> now, extra |-> extra],
                            !.statesum = Xor(ms.elt_sum,
                                StateMetaSum(<<parent.statesum>>,
                                    [number |-> parent.meta.number + 1,
                                     ts |-> now, extra |-> extra], p.tab))]
         IN [p |-> AddPair(p, c, FromMut(ms, c.parents, c.meta, p.tab)),
             ret |-> "Ok(true)"]

\* Partition::push_state: [p, ret]
PushState(p, ms, extra, now) ==
    IF ~Contains(p.states, ms.parent) THEN [p |-> p, ret |-> "NoParent"]
    ELSE LET parent == StateOf(p.states, ms.parent)
             c == IF Xor(parent.statesum, parent.metasum) = ms.elt_sum
                  THEN NoCommit
                  ELSE FromDiff(parent, ms, extra, now, p.tab)
         IN IF c = NoCommit THEN [p |-> p, ret |-> "Ok(false)"]
            ELSE [p |-> AddPair(p, c, FromMut(ms, c.parents, c.meta, p.tab)),
                  ret |-> "Ok(true)"]

\* ------------------------------------------------------------------ write
\* An I/O fault tells where the provider or the stream fails during a call:
\* at is "none", "log_open" (new_ss_cl fails), "log_head" (write_head or
\* start_log fails), "commit" (write_commit of commit number k + 1 fails,
\* leaving its first bytes in the file when torn), "ss_open" (new_ss fails)
\* or "ss_write" (write_head or write_snapshot of the snapshot fails).
NoFault == [at |-> "none", k |-> 0, torn |-> FALSE]
Fault(at, k, torn) == [at |-> at, k |-> k, torn |-> torn]

\* An I/O event of a call: ev is "log_create", "commit", "snapshot" or
\* "snapshot_torn", num the number of the file, idx the place the commit
\* written had in unsaved when the call began (0 for the other events)
Event(ev, num, idx) == [ev |-> ev, num |-> num, idx |-> idx]

\* Partition::write_snapshot
WriteSnapshot(p, io, fault) ==
    LET tk == TipKey(p)
        n == FirstFree(DOMAIN io.ss, p.ss_num + 1)
        st == StateOf(p.states, tk.key)
    IN IF ~tk.ok
       THEN [p |-> p, io |-> io, ret |-> tk.err, trace |-> <<>>]
       ELSE IF n > SlotLimit
       THEN [p |-> p, io |-> io, ret |-> "Err", trace |-> <<>>]
       ELSE IF fault.at = "ss_open"
       THEN [p |-> p, io |-> io, ret |-> "IoErr", trace |-> <<>>]
       ELSE IF fault.at = "ss_write"
       THEN [p |-> p,
             io |-> [io EXCEPT !.ss = (n :> SnapshotBytes(st, p.repo_name, p.part_id, FALSE)) @@ @],
             ret |-> "IoErr", trace |-> <<Event("snapshot_torn", n, 0)>>]
       ELSE [p |-> [p EXCEPT !.ss_num = n, !.commits = 0, !.edits = 0],
             io |-> [io EXCEPT !.ss = (n :> SnapshotBytes(st, p.repo_name, p.part_id, TRUE)) @@ @],
             ret |-> "Ok", trace |-> <<Event("snapshot", n, 0)>>]

\* A variant of the flush loop that pops a commit before writing it
FlushRest_PopBeforeWrite(q, k) ==
    IF k < Len(q) THEN SubSeq(q, k + 2, Len(q)) ELSE <<>>
\* The commits left in the queue when the first k were written and popped
FlushRest(q, k) == SubSeq(q, k + 1, Len(q))

\* The commits written when the first k writes succeed
FlushDone(q, k) == SubSeq(q, 1, k)

\* Partition::write, first step: the unsaved commits go to a new log file
\* [p, io, ok, trace]
FlushCommits(p, io, fault) ==
    LET q == p.unsaved
        cl == FirstFree({x[2] : x \in {y \in DOMAIN io.cl : y[1] = p.ss_num}},
                        SsClLen(io, p.ss_num))
        slot == <<p.ss_num, cl>>
        k == IF fault.at = "commit" /\ fault.k < Len(q) THEN fault.k ELSE Len(q)
        done == FlushDone(q, k)
        torn == IF k < Len(q) /\ fault.torn THEN <<q[k + 1]>> ELSE <<>>
        open == Event("log_create", cl, 0)
        writes == [i \in 1..k |-> Event("commit", cl, i)]
    IN IF q = <<>>
       THEN [p |-> p, io |-> io, ok |-> TRUE, trace |-> <<>>]
       ELSE IF cl > SlotLimit \/ fault.at = "log_open"
       THEN [p |-> p, io |-> io, ok |-> FALSE, trace |-> <<>>]
       ELSE IF fault.at = "log_head"
       THEN [p |-> p,
             io |-> [io EXCEPT !.cl = (slot :> [LogBytes(p.repo_name, p.part_id, <<>>, <<>>)
                                        EXCEPT !.head.ftype = "torn"]) @@ @],
             ok |-> FALSE, trace |-> <<open>>]
       ELSE [p |-> [p EXCEPT !.unsaved = FlushRest(q, k)],
             io |-> [io EXCEPT !.cl = (slot :> LogBytes(p.repo_name, p.part_id, done, torn)) @@ @],
             ok |-> k = Len(q), trace |-> <<open>> \o writes]

\* A variant of the maintenance guard that does not look at fast
SnapshotDue_IgnoreFast(p, fast) == IsReady(p) /\ PolicySnapshot(p)
\* Partition::write, second step: the maintenance guard
SnapshotDue(p, fast) == ~fast /\ IsReady(p) /\ PolicySnapshot(p)

\* A variant of write's value that reports a change whatever happened
WriteValue_Always(has_changes) == "Ok(true)"
\* Partition::write, the value returned on success
WriteValue(has_changes) == IF has_changes THEN "Ok(true)" ELSE "Ok(false)"

\* A variant of write that takes the snapshot before it flushes the commits
Write_SnapshotFirst(p, io, fast, fault) ==
    LET w == IF SnapshotDue(p, fast) THEN WriteSnapshot(p, io, fault)
             ELSE [p |-> p, io |-> io, ret |-> "Ok", trace |-> <<>>]
        f == FlushCommits(w.p, w.io, fault)
    IN IF w.ret # "Ok" THEN w
       ELSE [p |-> f.p, io |-> f.io,
             ret |-> IF f.ok THEN WriteValue(p.unsaved # <<>>) ELSE "IoErr",
             trace |-> w.trace \o f.trace]
\* Partition::write
Write(p, io, fast, fault) ==
    LET has_changes == p.unsaved # <<>>
        f == FlushCommits(p, io, fault)
        w == WriteSnapshot(f.p, f.io, fault)
    IN IF ~f.ok
       THEN [p |-> f.p, io |-> f.io, ret |-> "IoErr", trace |-> f.trace]
       ELSE IF SnapshotDue(f.p, fast)
       THEN [p |-> w.p, io |-> w.io,
             ret |-> IF w.ret = "Ok" THEN WriteValue(has_changes) ELSE w.ret,
             trace |-> f.trace \o w.trace]
       ELSE [p |-> f.p, io |-> f.io, ret |-> WriteValue(has_changes),
             trace |-> f.trace]

\* ----------------------------------------------------------------- replay
\* A variant of the tips of a replayed commit that keeps the parents
ReplayTips_KeepParents(tps, commit) == tps \cup {commit.statesum}
\* The tips of one replayed commit
ReplayTips(tps, commit) == (tps \ Range(commit.parents)) \cup {commit.statesum}

\* A variant of the step that replays a commit whose state is known
ReplayStep_NoSkip(acc, c) ==
    LET r == CommitApply(c, StateOf(acc.states, c.parents[1]), acc.tab)
    IN IF ~Contains(acc.states, c.parents[1])
       THEN [acc EXCEPT !.left = Append(@, c)]
       ELSE IF ~r.ok THEN [acc EXCEPT !.ok = FALSE]
       ELSE [acc EXCEPT !.states = InsertState(@, r.state),
                        !.tips = ReplayTips(@, c),
                        !.edits = @ + Cardinality(c.changes)]

\* One commit of the queue: replayed when its first parent is known,
\* skipped when its state is known, put back (left) otherwise
ReplayStep(acc, c) ==
    LET r == CommitApply(c, StateOf(acc.states, c.parents[1]), acc.tab)
    IN IF Contains(acc.states, c.statesum) THEN acc
       ELSE IF ~Contains(acc.states, c.parents[1])
       THEN [acc EXCEPT !.left = Append(@, c)]
       ELSE IF ~r.ok THEN [acc EXCEPT !.ok = FALSE]
       ELSE [acc EXCEPT !.states = InsertState(@, r.state),
                        !.tips = ReplayTips(@, c),
                        !.edits = @ + Cardinality(c.changes)]

RECURSIVE ReplayRange(_, _, _, _)
\* The scan of the commits q[lo], .., q[hi], in this order (the first half
\* of the range, then the second); it stops at the first failure
ReplayRange(acc, q, lo, hi) ==
    IF lo > hi \/ ~acc.ok THEN acc
    ELSE IF lo = hi THEN ReplayStep(acc, q[lo])
    ELSE The({The({ReplayRange(a, q, m + 1, hi) :
                        a \in {ReplayRange(acc, q, lo, m)}}) :
                m \in {(lo + hi) \div 2}})

\* One scan of the queue q.  acc is [ok, states, tips, edits, left, tab]: left
\* collects the commits deferred to the next pass.
ReplayPass(acc, q) == ReplayRange(acc, q, 1, Len(q))

\* A variant of the loop that scans the queue once
ReplayLoop_OnePass(acc) == ReplayPass([acc EXCEPT !.left = <<>>], acc.left)

RECURSIVE ReplayLoop(_)
\* Passes are repeated until one removes no commit from the queue
ReplayLoop(acc) ==
    The({IF ~r.ok \/ Len(r.left) = Len(acc.left) THEN r ELSE ReplayLoop(r) :
            r \in {ReplayPass([acc EXCEPT !.left = <<>>], acc.left)}})

\* LogReplay::replay: [ok, states, tips, edits, left, tab]
Replay(sts, tps, queue, tab) ==
    The({ReplayLoop(a) :
            a \in {[ok |-> TRUE, states |-> sts, tips |-> tps, edits |-> 0,
                    left |-> queue, tab |-> tab]}})

\* ------------------------------------------------------------------- load
\* A variant of verify_head that accepts every name
VerifyHead_AnyName(head, self_name, self_partid) ==
    [ok |-> head.part_id = self_partid,
     name |-> IF self_name = "" THEN head.name ELSE self_name]

\* Partition::verify_head: [ok, name]
VerifyHead(head, self_name, self_partid) ==
    IF self_name # "" /\ self_name # head.name
    THEN [ok |-> FALSE, name |-> self_name]
    ELSE [ok |-> head.part_id = self_partid,
          name |-> IF self_name = "" THEN head.name ELSE self_name]

\* read_head
ReadHeadOk(f) == f.head.ftype # "torn"

\* The load_ss closure of load: [p, ok, found]
LoadSs(p, io, ss) ==
    IF ss \notin DOMAIN io.ss THEN [p |-> p, ok |-> TRUE, found |-> FALSE]
    ELSE LET f == io.ss[ss]
             v == VerifyHead(f.head, p.repo_name, p.part_id)
             r == ReadSnapshot(f)
             p1 == [p EXCEPT !.repo_name = v.name]
         IN IF ~ReadHeadOk(f) THEN [p |-> p, ok |-> FALSE, found |-> FALSE]
            ELSE IF ~v.ok \/ ~r.ok THEN [p |-> p1, ok |-> FALSE, found |-> FALSE]
            ELSE [p |-> [p1 EXCEPT !.tips = @ \cup {r.state.statesum},
                                   !.states = InsertState(@, r.state)],
                  ok |-> TRUE, found |-> TRUE]

\* The log files of snapshot numbers lo..hi that exist, in (ss, cl) order
LogSlots(io, lo, hi) ==
    LET S == {k \in DOMAIN io.cl : lo <= k[1] /\ k[1] <= hi}
    IN SortSeq(CHOOSE q \in [1..Cardinality(S) -> S] : Range(q) = S,
               LAMBDA a, b : a[1] < b[1] \/ (a[1] = b[1] /\ a[2] < b[2]))

\* One log file of the load_cl closure: acc is [p, ok, queue, seen]
ReadLogFile(acc, f) ==
    LET v == VerifyHead(f.head, acc.p.repo_name, acc.p.part_id)
        r == ReadLog(f)
        p1 == [acc.p EXCEPT !.repo_name = v.name]
    IN IF ~ReadHeadOk(f) THEN [acc EXCEPT !.ok = FALSE]
       ELSE IF ~v.ok \/ ~r.ok THEN [acc EXCEPT !.ok = FALSE, !.p = p1]
       ELSE [acc EXCEPT !.p = p1, !.seen = TRUE, !.queue = @ \o r.commits]

RECURSIVE ReadLogs(_, _, _, _, _)
\* The body of the load_cl closure over the files slots[lo], .., slots[hi],
\* in this order (the first half of the range, then the second); it stops
\* at the first failure
ReadLogs(acc, io, slots, lo, hi) ==
    IF lo > hi \/ ~acc.ok THEN acc
    ELSE IF lo = hi THEN ReadLogFile(acc, io.cl[slots[lo]])
    ELSE The({The({ReadLogs(a, io, slots, m + 1, hi) :
                        a \in {ReadLogs(acc, io, slots, lo, m)}}) :
                m \in {(lo + hi) \div 2}})

\* The load_cl closure of load: [p, ok, queue, seen]
LoadCl(p, io, lo, hi) ==
    The({ReadLogs(a, io, slots, 1, Len(slots)) :
            a \in {[p |-> p, ok |-> TRUE, queue |-> <<>>, seen |-> FALSE]},
            slots \in {LogSlots(io, lo, hi)}})

\* A variant of the scan that tries the latest snapshot number only
FindSs_TopOnly(p, io, num) ==
    The({[p |-> r.p, ok |-> r.ok, found |-> r.found, num |-> num] :
            r \in {LoadSs(p, io, num)}})

RECURSIVE FindSs(_, _, _)
\* The downward scan of load for the most recent snapshot: [p, ok, found, num]
FindSs(p, io, num) ==
    The({IF ~r.ok \/ r.found \/ num = 0
         THEN [p |-> r.p, ok |-> r.ok, found |-> r.found, num |-> num]
         ELSE The({FindSs(q, io, n) : q \in {r.p}, n \in {num - 1}}) :
            r \in {LoadSs(p, io, num)}})

\* A variant of require that counts one more commit
PolicyRequire_CountOne(p) == [p EXCEPT !.commits = @ + 1]

\* SnapshotPolicy::require
PolicyRequire(p) == [p EXCEPT !.commits = RequireCommits]

\* A variant of the end of load that keeps the number the scan ended at
LoadFinish_ScanNum(p, ss_len, num, seen) ==
    LET p0 == [p EXCEPT !.ss_num = num]
        p1 == IF num < ss_len - 1 THEN PolicyRequire(p0) ELSE p0
    IN [p |-> p1,
        ret |-> IF p1.tips # {} /\ seen THEN "Ok" ELSE "Err",
        forced |-> num < ss_len - 1]

\* The end of load: ss_num, the forced policy and the value returned;
\* forced tells whether require was called
LoadFinish(p, ss_len, num, seen) ==
    LET p0 == [p EXCEPT !.ss_num = ss_len - 1]
        p1 == IF num < ss_len - 1 THEN PolicyRequire(p0) ELSE p0
    IN [p |-> p1,
        ret |-> IF p1.tips # {} /\ seen THEN "Ok" ELSE "Err",
        forced |-> num < ss_len - 1]

\* Partition::load(false)
LoadLatest(p, io) ==
    LET ss_len == SsLen(io)
        \* after the snapshot s and the logs l were read
        Rest(s, l) ==
            LET p1 == [l.p EXCEPT !.commits = @ + Len(l.queue)]
                p2 == IF p1.tips = {}
                      THEN [p1 EXCEPT !.tips = {BlankState.statesum},
                                      !.states = InsertState(@, BlankState)]
                      ELSE p1
            IN The({LET p3 == [p2 EXCEPT !.states = r.states, !.tips = r.tips]
                    IN IF ~r.ok THEN [p |-> p3, ret |-> "Err", forced |-> FALSE]
                       ELSE LoadFinish([p3 EXCEPT !.edits = @ + r.edits],
                                       ss_len, s.num, s.found \/ l.seen) :
                        r \in {Replay(p2.states, p2.tips, l.queue, p2.tab)}})
    IN IF ss_len = 0 THEN [p |-> p, ret |-> "Err", forced |-> FALSE]
       ELSE The({IF ~s.ok THEN [p |-> s.p, ret |-> "Err", forced |-> FALSE]
                 ELSE The({IF ~l.ok THEN [p |-> l.p, ret |-> "Err", forced |-> FALSE]
                           ELSE Rest(s, l) :
                              l \in {LoadCl(s.p, io, s.num, ss_len - 1)}}) :
                    s \in {FindSs(p, io, ss_len - 1)}})

RECURSIVE LoadAllFrom(_, _, _, _)
\* The loop of load(true) from snapshot number ss on: acc is
\* [p, ok, seen, num_commits, num_edits]
LoadAllFrom(acc, io, ss, ss_len) ==
    LET \* one iteration, after the snapshot s and the logs l were read
        Rest(s, l) ==
            The({LET p3 == [l.p EXCEPT !.states = r.states, !.tips = r.tips]
                 IN IF ~r.ok THEN [acc EXCEPT !.ok = FALSE, !.p = p3]
                    ELSE The({LoadAllFrom(a, io, n, ss_len) :
                                a \in {[p |-> p3, ok |-> TRUE,
                                        seen |-> acc.seen \/ s.found \/ l.seen,
                                        num_commits |-> Len(l.queue),
                                        num_edits |-> r.edits]},
                                n \in {ss + 1}}) :
                    r \in {Replay(l.p.states, l.p.tips, l.queue, l.p.tab)}})
    IN IF ss >= ss_len \/ ~acc.ok THEN acc
       ELSE The({IF ~s.ok THEN [acc EXCEPT !.ok = FALSE, !.p = s.p]
                 ELSE The({IF ~l.ok THEN [acc EXCEPT !.ok = FALSE, !.p = l.p]
                           ELSE Rest(s, l) :
                              l \in {LoadCl(s.p, io, ss, ss)}}) :
                    s \in {LoadSs(acc.p, io, ss)}})

\* Partition::load(true)
LoadAll(p, io) ==
    LET ss_len == SsLen(io)
    IN IF ss_len = 0 THEN [p |-> p, ret |-> "Err", forced |-> FALSE]
       ELSE The({IF ~a.ok THEN [p |-> a.p, ret |-> "Err", forced |-> FALSE]
                 ELSE LoadFinish([a.p EXCEPT !.commits = @ + a.num_commits,
                                             !.edits = @ + a.num_edits],
                                 ss_len, ss_len - 1, a.seen) :
                    a \in {The({LoadAllFrom(b, io, 0, ss_len) :
                                 b \in {[p |-> p, ok |-> TRUE, seen |-> FALSE,
                                         num_commits |-> 0, num_edits |-> 0]}})}})

\* Partition::load
Load(p, io, all_history) == IF all_history THEN LoadAll(p, io) ELSE LoadLatest(p, io)

\* A variant of unload that drops the queue with the states
Unload_DropQueue(p, force) ==
    IF force \/ p.unsaved = <<>>
    THEN [p |-> [p EXCEPT !.states = {}, !.tips = {}, !.unsaved = <<>>], ret |-> "true"]
    ELSE [p |-> p, ret |-> "false"]

\* A variant of unload that does not look at the queue
Unload_Always(p, force) ==
    [p |-> [p EXCEPT !.states = {}, !.tips = {}], ret |-> "true"]

\* Partition::unload: [p, ret]
Unload(p, force) ==
    IF force \/ p.unsaved = <<>>
    THEN [p |-> [p EXCEPT !.states = {}, !.tips = {}], ret |-> "true"]
    ELSE [p |-> p, ret |-> "false"]

\* Partition::set_repo_name: [p, ret]
SetRepoName(p, name) ==
    IF p.repo_name = "" THEN [p |-> [p EXCEPT !.repo_name = name], ret |-> "Ok"]
    ELSE IF p.repo_name # name THEN [p |-> p, ret |-> "Err"]
    ELSE [p |-> p, ret |-> "Ok"]

\* validate_repo_name: a name must not be empty
ValidRepoName(name) == name # ""

\* A variant of create that writes snapshot 0 over an existing one
Create_Overwrite(io, name) ==
    IF ~ValidRepoName(name)
    THEN [ok |-> FALSE, p |-> OpenPart, io |-> io]
    ELSE [ok |-> TRUE,
          p |-> [OpenPart EXCEPT !.repo_name = name,
                                 !.tips = {BlankState.statesum},
                                 !.states = {BlankState}],
          io |-> [io EXCEPT !.ss = (0 :> SnapshotBytes(BlankState, name, PartIdNum, TRUE)) @@ @]]

\* Partition::create: [ok, p, io]
Create(io, name) ==
    IF ~ValidRepoName(name) \/ 0 \in DOMAIN io.ss
    THEN [ok |-> FALSE, p |-> OpenPart, io |-> io]
    ELSE [ok |-> TRUE,
          p |-> [OpenPart EXCEPT !.repo_name = name,
                                 !.tips = {BlankState.statesum},
                                 !.states = {BlankState}],
          io |-> [io EXCEPT !.ss = (0 :> SnapshotBytes(BlankState, name, PartIdNum, TRUE)) @@ @]]

\* ------------------------------------------------------------------ merge
RECURSIVE Ancestors(_, _, _)
\* First loop of latest_common_ancestor: next is the stack (pop_back takes
\* the last entry), a1 the sums visited; a sum that is not in states is
\* visited too, its parents are unknown
Ancestors(sts, next, a1) ==
    IF next = <<>> THEN a1
    ELSE LET k == next[Len(next)]
             rest == SubSeq(next, 1, Len(next) - 1)
             more == IF k \in a1 \/ ~Contains(sts, k) THEN <<>>
                     ELSE StateOf(sts, k).parents
         IN The({Ancestors(sts, n, a) : n \in {rest \o more}, a \in {a1 \cup {k}}})

RECURSIVE FirstCommon(_, _, _, _)
\* Second loop of latest_common_ancestor: [ok, key]
FirstCommon(sts, next, a2, a1) ==
    IF next = <<>> THEN [ok |-> FALSE, key |-> Zero]
    ELSE LET k == next[Len(next)]
             rest == SubSeq(next, 1, Len(next) - 1)
             more == IF k \in a2 \/ ~Contains(sts, k) THEN <<>>
                     ELSE StateOf(sts, k).parents
         IN IF k \notin a2 /\ k \in a1 THEN [ok |-> TRUE, key |-> k]
            ELSE The({FirstCommon(sts, n, a, a1) :
                        n \in {rest \o more}, a \in {a2 \cup {k}}})

\* Partition::latest_common_ancestor: [ok, key]
LatestCommonAncestor(sts, k1, k2) ==
    The({FirstCommon(sts, <<k2>>, {}, a1) : a1 \in {Ancestors(sts, <<k1>>, {})}})

\* TwoWayMerge::solve: the merged element map of tips a and b with common
\* ancestor c; where both sides changed an element differently the solver's
\* pick ("a" or "b") decides
Entry(elts, id) == IF Has(elts, id) THEN <<Get(elts, id)>> ELSE <<>>
MergedElts(a, b, c, pick) ==
    LET ids == Ids(a) \cup Ids(b) \cup Ids(c)
        val(id) ==
            LET x == Entry(a, id)
                y == Entry(b, id)
                z == Entry(c, id)
            IN IF x = y THEN x
               ELSE IF x = z THEN y
               ELSE IF y = z THEN x
               ELSE IF pick = "a" THEN x ELSE y
    IN {<<id, val(id)[1]>> : id \in {i \in ids : val(i) # <<>>}}

\* TwoWayMerge::make_commit: the commit leading from tip1 to the merged
\* state, with both tips as parents
MergeCommit(tip1, tip2, common, pick, now, tab) ==
    LET merged == MergedElts(tip1.elts, tip2.elts, common.elts, pick)
        changes == DiffChanges(tip1.elts, merged)
        ms == ApplyChanges(CloneMut(tip1), changes)
        parents == <<tip1.statesum, tip2.statesum>>
        num == IF tip1.meta.number > tip2.meta.number
               THEN tip1.meta.number ELSE tip2.meta.number
        meta == [number |-> num + 1, ts |-> now, extra |-> NoExtra]
    IN [statesum |-> Xor(ms.elt_sum, StateMetaSum(parents, meta, tab)),
        parents |-> parents, changes |-> changes, meta |-> meta]

\* One iteration of the loop of Partition::merge on tips t1, t2: [p, ret];
\* a common ancestor that is not in states makes merge_two panic
MergeStep(p, t1, t2, pick, now) ==
    LET lca == LatestCommonAncestor(p.states, t1, t2)
        c == MergeCommit(StateOf(p.states, t1), StateOf(p.states, t2),
                         StateOf(p.states, lca.key), pick, now, p.tab)
    IN IF ~lca.ok THEN [p |-> p, ret |-> "Err"]
       ELSE IF ~Contains(p.states, lca.key) THEN [p |-> p, ret |-> "Panic"]
       ELSE PushCommit(p, c)

\* A variant of merge that ends after the first iteration
MergeRuns_OneStep(p, now) ==
    IF Cardinality(p.tips) <= 1 THEN {[p |-> p, ret |-> "Ok"]}
    ELSE {[p |-> r.p, ret |-> IF r.ret = "Panic" THEN "Panic"
                               ELSE IF r.ret = "Ok" THEN "Ok" ELSE "Err"]
            : r \in {MergeStep(p, t[1], t[2], pick, now) :
                        t \in {x \in p.tips \X p.tips : x[1] # x[2]},
                        pick \in {"a", "b"}}}

RECURSIVE MergeRuns(_, _)
\* Partition::merge: the set of [p, ret] the loop can end with, over the
\* tips the iteration order offers and the picks of the solver
MergeRuns(p, now) ==
    IF Cardinality(p.tips) <= 1 THEN {[p |-> p, ret |-> "Ok"]}
    ELSE UNION {
            IF r.ret = "Ok" THEN The({MergeRuns(q, now) : q \in {r.p}})
            ELSE {[p |-> r.p, ret |-> IF r.ret = "Panic" THEN "Panic" ELSE "Err"]}
            : r \in {MergeStep(p, t[1], t[2], pick, now) :
                        t \in {x \in p.tips \X p.tips : x[1] # x[2]},
                        pick \in {"a", "b"}}}

\* ================================================================ streams
\* The byte streams of readwrite/commitlog.rs and readwrite/snapshot.rs. A
\* stream is a sequence of cells, one cell for each byte: a plain byte n is
\* [b |-> n, s |-> Zero]; of the bytes of a sum S the first is [b |-> 256,
\* s |-> S] and the i-th of the others [b |-> 255 + i, s |-> Zero]. Numbers
\* stay below 2^24; a field that holds more reads as 2^24.

\* sum::BYTES, the length of a sum in bytes
SumBytes == 32

Byte(n) == [b |-> n, s |-> Zero]
\* The cells of the bytes with the codes given (a byte string literal)
Lit(codes) == [i \in 1..Len(codes) |-> Byte(codes[i])]
Zeros(n) == [i \in 1..n |-> Byte(0)]
\* cells[from .. from + n] of the source, as byte values
Slice(cells, from, n) == SubSeq(cells, from + 1, from + n)
Codes(cells) == [i \in 1..Len(cells) |-> cells[i].b]
\* read_exact succeeds: n more bytes follow position pos
Have(cells, pos, n) == pos + n <= Len(cells)

\* byteorder: write_u32 and write_u64 (w bytes, big-endian) of n >= 0
Digit(n, k) == IF k >= 4 THEN 0 ELSE (n \div (256 ^ k)) % 256
BigEndian(n, w) == [i \in 1..w |-> Byte(Digit(n, w - i))]
\* byteorder: write_i64, two's complement
BigEndianSigned(n, w) ==
    IF n >= 0 THEN BigEndian(n, w)
    ELSE [i \in 1..w |-> Byte(255 - Digit(-n - 1, w - i))]
\* byteorder: read_u32 and read_u64
ReadNum(cells) ==
    LET w == Len(cells)
    IN IF \E i \in 1..w : cells[i].b \notin 0..255 \/ (i < w - 2 /\ cells[i].b # 0)
       THEN 256 ^ 3
       ELSE cells[w].b + 256 * cells[w - 1].b + 65536 * cells[w - 2].b
\* byteorder: read_i64
ReadSigned(cells) ==
    IF cells[1].b \in 128..255
    THEN -ReadNum([i \in 1..Len(cells) |-> Byte(255 - cells[i].b)]) - 1
    ELSE ReadNum(cells)

\* Sum::write
SumCells(sum) ==
    [i \in 1..SumBytes |-> [b |-> 255 + i, s |-> IF i = 1 THEN sum ELSE Zero]]
\* Sum::load: the sum the bytes were written from, or the sum those bytes are
LoadSum(cells) ==
    IF cells = SumCells(cells[1].s) THEN cells[1].s ELSE {<<"raw", 0, cells>>}
\* HashReader::sum, HashWriter::sum: the checksum of the bytes passed through
StreamSum(cells) == {<<"h", 0, cells>>}
\* Sum::calculate of readwrite/snapshot.rs
Calculate(data) == {<<"c", 0, data>>}

\* The padding after n bytes, up to the next multiple of 16
PadLen(n) == 16 * ((n + 15) \div 16) - n

RECURSIVE Flat(_)
Flat(seqs) == IF seqs = <<>> THEN <<>> ELSE Head(seqs) \o Flat(Tail(seqs))

\* ------------------------------------------------------------ commit log
XmNone == [tag |-> "None", text |-> <<>>]

\* start_log: COMMIT LOG and six NUL
StartLog == Lit(<<67, 79, 77, 77, 73, 84, 32, 76, 79, 71, 0, 0, 0, 0, 0, 0>>)

\* A variant of the extra metadata block without padding
XmBytes_NoPad(extra) ==
    IF extra.tag = "None" THEN Lit(<<88, 77, 0, 0>>) \o BigEndian(0, 4)
    ELSE Lit(<<88, 77, 84, 84>>) \o BigEndian(Len(extra.text), 4)
         \o Lit(extra.text)
\* write_commit, the extra metadata: XM, two NUL and length 0, or XM, TT,
\* the length, the text and its padding
XmBytes(extra) ==
    IF extra.tag = "None" THEN Lit(<<88, 77, 0, 0>>) \o BigEndian(0, 4)
    ELSE Lit(<<88, 77, 84, 84>>) \o BigEndian(Len(extra.text), 4)
         \o Lit(extra.text) \o Zeros(PadLen(Len(extra.text)))

\* write_commit, one change: ELT and DEL, INS, REPL, MOVO or MOV, the id,
\* then the element (ELT DATA, length, data, padding, sum) where there is
\* one and the new id (NEW ELT) where there is one
ChangeBytes(ch) ==
    LET marker == CASE ch.op = "Delete" -> <<68, 69, 76, 0>>
                    [] ch.op = "Insert" -> <<73, 78, 83, 0>>
                    [] ch.op = "Replace" -> <<82, 69, 80, 76>>
                    [] ch.op = "MovedOut" -> <<77, 79, 86, 79>>
                    [] ch.op = "Moved" -> <<77, 79, 86, 0>>
    IN Lit(<<69, 76, 84, 32>> \o marker) \o BigEndian(ch.id, 8)
       \o (IF ch.op \in {"Insert", "Replace"}
           THEN Lit(<<69, 76, 84, 32, 68, 65, 84, 65>>)
                \o BigEndian(Len(ch.data), 8)
                \o Lit(ch.data) \o Zeros(PadLen(Len(ch.data)))
                \o SumCells(EltSum(ch.id, ch.data))
           ELSE <<>>)
       \o (IF ch.op \in {"MovedOut", "Moved"}
           THEN Lit(<<78, 69, 87, 32, 69, 76, 84, 0>>) \o BigEndian(ch.new_id, 8)
           ELSE <<>>)

\* write_commit with the extra metadata block xm given: chs lists the
\* changes in the order changes_iter yields them
CommitBytes(c, chs, xm) ==
    LET n == Len(c.parents)
        head == IF n = 1 THEN Lit(<<67, 79, 77, 77, 73, 84, 0, 85>>)
                ELSE Lit(<<77, 69, 82, 71, 69, n % 256, 0, 85>>)
        parents == [j \in 1..(n * SumBytes) |->
                       SumCells(c.parents[((j - 1) \div SumBytes) + 1])
                           [((j - 1) % SumBytes) + 1]]
        body == head \o BigEndianSigned(c.meta.ts, 8)
                \o Lit(<<67, 78, 85, 77>>) \o BigEndian(c.meta.number, 4)
                \o xm \o parents
                \o Lit(<<69, 76, 69, 77, 69, 78, 84, 83>>) \o BigEndian(Len(chs), 8)
                \o Flat([i \in 1..Len(chs) |-> ChangeBytes(chs[i])])
                \o SumCells(c.statesum)
    IN body \o SumCells(StreamSum(body))

\* write_commit
WriteCommit(c, chs) == CommitBytes(c, chs, XmBytes(c.meta.extra))

ReadFail(kind, pos) == [ok |-> FALSE, err |-> kind, pos |-> pos]

\* A variant of the parent count that takes every record for a COMMIT
NParents_One(head) ==
    IF SubSeq(head, 1, 6) = <<67, 79, 77, 77, 73, 84>> THEN 1
    ELSE IF SubSeq(head, 1, 5) = <<77, 69, 82, 71, 69>> THEN 1
    ELSE 0
\* read_log, the number of parents: 1 after COMMIT, the byte after MERGE
\* when it is 2 or more, else 0 for a Read error
NParents(head) ==
    IF SubSeq(head, 1, 6) = <<67, 79, 77, 77, 73, 84>> THEN 1
    ELSE IF SubSeq(head, 1, 5) = <<77, 69, 82, 71, 69>>
    THEN (IF head[6] < 2 THEN 0 ELSE head[6])
    ELSE 0

\* read_log, the extra metadata: text when the type is TT and the data is
\* UTF-8 (here: ASCII), and none for every other type, whatever the data
ReadXm(type, data) ==
    IF type = <<84, 84>>
    THEN (IF \A i \in 1..Len(data) : data[i] \in 0..127
          THEN [ok |-> TRUE, extra |-> [tag |-> "Text", text |-> data]]
          ELSE [ok |-> FALSE, extra |-> XmNone])
    ELSE [ok |-> TRUE, extra |-> XmNone]

\* read_log, one change: [ok, err, pos, change]
ReadChange(cells, pos) ==
    LET head == Codes(Slice(cells, pos, 16))
        elt_id == ReadNum(Slice(cells, pos + 8, 8))
        t == SubSeq(head, 5, 8)
        op == IF t = <<68, 69, 76, 0>> THEN "Delete"
              ELSE IF t = <<73, 78, 83, 0>> THEN "Insert"
              ELSE IF t = <<82, 69, 80, 76>> THEN "Replace"
              ELSE IF t = <<77, 79, 86, 79>> THEN "MovedOut"
              ELSE IF t = <<77, 79, 86, 0>> THEN "Moved"
              ELSE "?"
        p1 == pos + 16
        next == Codes(Slice(cells, p1, 16))
        len == ReadNum(Slice(cells, p1 + 8, 8))
        p2 == p1 + 16
        data == Codes(Slice(cells, p2, len))
        p3 == p2 + len + PadLen(len)
        p4 == p3 + SumBytes
        done(p, d, n) == [ok |-> TRUE, err |-> "", pos |-> p,
                          change |-> [id |-> elt_id, op |-> op, data |-> d, new_id |-> n]]
    IN IF ~Have(cells, pos, 16) THEN ReadFail("Io", pos)
       ELSE IF SubSeq(head, 1, 4) # <<69, 76, 84, 32>> THEN ReadFail("Read", pos)
       ELSE IF op = "?" THEN ReadFail("Read", pos)
       ELSE IF op = "Delete" THEN done(p1, <<>>, 0)
       ELSE IF ~Have(cells, p1, 16) THEN ReadFail("Io", p1)
       ELSE IF op \in {"Insert", "Replace"}
       THEN (IF SubSeq(next, 1, 8) # <<69, 76, 84, 32, 68, 65, 84, 65>>
             THEN ReadFail("Read", p1)
             ELSE IF ~Have(cells, p2, len) THEN ReadFail("Io", p2)
             ELSE IF ~Have(cells, p2 + len, PadLen(len)) THEN ReadFail("Io", p2 + len)
             ELSE IF ~Have(cells, p3, SumBytes) THEN ReadFail("Io", p3)
             ELSE IF SumCells(EltSum(elt_id, data)) # Slice(cells, p3, SumBytes)
             THEN ReadFail("Read", p3)
             ELSE done(p4, data, 0))
       ELSE (IF SubSeq(next, 1, 8) # <<78, 69, 87, 32, 69, 76, 84, 0>>
             THEN ReadFail("Read", p1)
             ELSE done(p2, <<>>, len))

RECURSIVE ReadChanges(_, _, _, _)
\* read_log, the loop over num_elts changes: [ok, err, pos, changes]; a
\* later change of an element replaces an earlier one
ReadChanges(cells, pos, n, acc) ==
    IF n = 0 THEN [ok |-> TRUE, err |-> "", pos |-> pos, changes |-> acc]
    ELSE LET r == ReadChange(cells, pos)
         IN IF ~r.ok THEN r
            ELSE The({ReadChanges(cells, q.pos, n - 1,
                        {x \in acc : x.id # q.change.id} \cup {q.change}) : q \in {r}})

\* read_log, one commit from position pos: [ok, err, pos, commit]
ReadCommit(cells, pos) ==
    LET head == Codes(Slice(cells, pos, 16))
        n_parents == NParents(head)
        secs == ReadSigned(Slice(cells, pos + 8, 8))
        p2 == pos + 16
        b2 == Codes(Slice(cells, p2, 16))
        cnum == ReadNum(Slice(cells, p2 + 4, 4))
        xm_len == ReadNum(Slice(cells, p2 + 12, 4))
        p3 == p2 + 16
        xm == ReadXm(SubSeq(b2, 11, 12), Codes(Slice(cells, p3, xm_len)))
        p4 == p3 + xm_len + PadLen(xm_len)
        parents == [i \in 1..n_parents |->
                       LoadSum(Slice(cells, p4 + (i - 1) * SumBytes, SumBytes))]
        p5 == p4 + n_parents * SumBytes
        b3 == Codes(Slice(cells, p5, 16))
        num_elts == ReadNum(Slice(cells, p5 + 8, 8))
        chs == ReadChanges(cells, p5 + 16, num_elts, {})
        p7 == chs.pos + SumBytes
    IN IF ~Have(cells, pos, 16) THEN ReadFail("Io", pos)
       ELSE IF n_parents = 0 THEN ReadFail("Read", pos)
       ELSE IF SubSeq(head, 7, 8) # <<0, 85>> THEN ReadFail("Read", pos)
       ELSE IF ~Have(cells, p2, 16) THEN ReadFail("Io", p2)
       ELSE IF SubSeq(b2, 1, 4) # <<67, 78, 85, 77>> THEN ReadFail("Read", p2)
       ELSE IF SubSeq(b2, 9, 10) # <<88, 77>> THEN ReadFail("Read", p2)
       ELSE IF ~Have(cells, p3, xm_len) THEN ReadFail("Io", p3)
       ELSE IF ~xm.ok THEN ReadFail("Read", p3)
       ELSE IF ~Have(cells, p3 + xm_len, PadLen(xm_len)) THEN ReadFail("Io", p3)
       ELSE IF ~Have(cells, p4, n_parents * SumBytes) THEN ReadFail("Io", p4)
       ELSE IF ~Have(cells, p5, 16) THEN ReadFail("Io", p5)
       ELSE IF SubSeq(b3, 1, 8) # <<69, 76, 69, 77, 69, 78, 84, 83>>
       THEN ReadFail("Read", p5)
       ELSE IF ~chs.ok THEN ReadFail(chs.err, chs.pos)
       ELSE IF ~Have(cells, chs.pos, SumBytes) THEN ReadFail("Io", chs.pos)
       ELSE IF ~Have(cells, p7, SumBytes) THEN ReadFail("Io", p7)
       ELSE IF SumCells(StreamSum(Slice(cells, pos, p7 - pos))) # Slice(cells, p7, SumBytes)
       THEN ReadFail("Read", p7)
       ELSE [ok |-> TRUE, err |-> "", pos |-> p7 + SumBytes,
             commit |-> [statesum |-> LoadSum(Slice(cells, chs.pos, SumBytes)),
                         parents |-> parents, changes |-> chs.changes,
                         meta |-> [number |-> cnum, ts |-> secs, extra |-> xm.extra]]]

RECURSIVE ReadRecords_DropOnError(_, _, _)
\* A variant of the loop that hands over the commits only at the end
ReadRecords_DropOnError(cells, pos, acc) ==
    IF pos >= Len(cells) THEN [ok |-> TRUE, err |-> "", commits |-> acc]
    ELSE LET r == ReadCommit(cells, pos)
         IN IF ~r.ok THEN [ok |-> FALSE, err |-> r.err, commits |-> <<>>]
            ELSE The({ReadRecords_DropOnError(cells, q.pos, Append(acc, q.commit)) :
                        q \in {r}})

RECURSIVE ReadRecords(_, _, _)
\* read_log, the loop: commits until the end of the stream, each given to
\* the receiver (a Vec, which takes them all)
ReadRecords(cells, pos, acc) ==
    IF pos >= Len(cells) THEN [ok |-> TRUE, err |-> "", commits |-> acc]
    ELSE LET r == ReadCommit(cells, pos)
         IN IF ~r.ok THEN [ok |-> FALSE, err |-> r.err, commits |-> acc]
            ELSE The({ReadRecords(cells, q.pos, Append(acc, q.commit)) : q \in {r}})

\* read_log on a stream of bytes: [ok, err, commits]
ReadLogBytes(cells) ==
    IF ~Have(cells, 0, 16) THEN [ok |-> FALSE, err |-> "Io", commits |-> <<>>]
    ELSE IF Slice(cells, 0, 16) # StartLog
    THEN [ok |-> FALSE, err |-> "Read", commits |-> <<>>]
    ELSE ReadRecords(cells, 16, <<>>)

\* -------------------------------------------------------------- snapshot
\* readwrite/snapshot.rs works on a map from identifier to Element, here a
\* set of [id, data, sum] with one record for an identifier

\* A variant of the element block without padding
EltBlock_NoPad(e) ==
    Lit(<<69, 76, 69, 77, 69, 78, 84, 0>>) \o BigEndian(e.id, 8)
    \o Lit(<<66, 89, 84, 69, 83, 0, 0, 0>>) \o BigEndian(Len(e.data), 8)
    \o Lit(e.data)
    \o SumCells(Calculate(e.data))
\* write_snapshot, one element: ELEMENT and NUL, the identifier, BYTES and
\* three NUL, the length, the data padded to 16 bytes, the sum of the data
EltBlock(e) ==
    Lit(<<69, 76, 69, 77, 69, 78, 84, 0>>) \o BigEndian(e.id, 8)
    \o Lit(<<66, 89, 84, 69, 83, 0, 0, 0>>) \o BigEndian(Len(e.data), 8)
    \o Lit(e.data) \o Zeros(PadLen(Len(e.data)))
    \o SumCells(Calculate(e.data))

RECURSIVE XorSums(_)
\* state_sum = state_sum ^ elt_sum over the elements listed
XorSums(es) ==
    IF es = <<>> THEN Zero ELSE Xor(Calculate(Head(es).data), XorSums(Tail(es)))

\* write_snapshot: es lists the elements in the order the map yields them,
\* date holds the eight digits of today
WriteSnapshotBytes(es, date) ==
    LET body == Lit(<<83, 78, 65, 80, 83, 72, 79, 84>>) \o Lit(date)
                \o Lit(<<69, 76, 69, 77, 69, 78, 84, 83>>) \o BigEndian(Len(es), 8)
                \o Flat([i \in 1..Len(es) |-> EltBlock(es[i])])
                \o Lit(<<83, 84, 65, 84, 69, 83, 85, 77>>) \o BigEndian(Len(es), 8)
                \o SumCells(XorSums(es))
    IN body \o SumCells(StreamSum(body))

RECURSIVE ReadElts(_, _, _, _, _)
\* read_snapshot, the loop over num_elts elements: [ok, err, pos, elts, sum]
ReadElts(cells, pos, n, elts, state_sum) ==
    IF n = 0
    THEN [ok |-> TRUE, err |-> "", pos |-> pos, elts |-> elts, sum |-> state_sum]
    ELSE LET buf == Codes(Slice(cells, pos, 32))
             ident == ReadNum(Slice(cells, pos + 8, 8))
             data_len == ReadNum(Slice(cells, pos + 24, 8))
             p2 == pos + 32
             data == Codes(Slice(cells, p2, data_len))
             p3 == p2 + data_len + PadLen(data_len)
             elt_sum == Calculate(data)
             fail(kind) == [ok |-> FALSE, err |-> kind, pos |-> pos,
                            elts |-> elts, sum |-> state_sum]
         IN IF ~Have(cells, pos, 32) THEN fail("Io")
            ELSE IF SubSeq(buf, 1, 8) # <<69, 76, 69, 77, 69, 78, 84, 0>> THEN fail("Read")
            ELSE IF SubSeq(buf, 17, 24) # <<66, 89, 84, 69, 83, 0, 0, 0>> THEN fail("Read")
            ELSE IF ~Have(cells, p2, data_len) THEN fail("Io")
            ELSE IF ~Have(cells, p2 + data_len, PadLen(data_len)) THEN fail("Io")
            ELSE IF ~Have(cells, p3, SumBytes) THEN fail("Io")
            ELSE IF SumCells(elt_sum) # Slice(cells, p3, SumBytes) THEN fail("Read")
            ELSE The({ReadElts(cells, p3 + SumBytes, n - 1,
                        {x \in elts : x.id # e.id} \cup {e}, Xor(state_sum, e.sum)) :
                      e \in {[id |-> ident, data |-> data, sum |-> elt_sum]}})

\* read_snapshot on a stream of bytes: [ok, err, elts]
ReadSnapshotBytes(cells) ==
    LET buf == Codes(Slice(cells, 0, 32))
        num_elts == ReadNum(Slice(cells, 24, 8))
        r == ReadElts(cells, 32, num_elts, {}, Zero)
        tail == Codes(Slice(cells, r.pos, 16))
        p2 == r.pos + 16
        p3 == p2 + SumBytes
        fail(kind) == [ok |-> FALSE, err |-> kind, elts |-> {}]
    IN IF ~Have(cells, 0, 32) THEN fail("Io")
       ELSE IF SubSeq(buf, 1, 8) # <<83, 78, 65, 80, 83, 72, 79, 84>> THEN fail("Read")
       ELSE IF SubSeq(buf, 17, 24) # <<69, 76, 69, 77, 69, 78, 84, 83>> THEN fail("Read")
       ELSE IF ~r.ok THEN fail(r.err)
       ELSE IF ~Have(cells, r.pos, 16) THEN fail("Io")
       ELSE IF SubSeq(tail, 1, 8) # <<83, 84, 65, 84, 69, 83, 85, 77>> THEN fail("Read")
       ELSE IF ReadNum(Slice(cells, r.pos + 8, 8)) # num_elts THEN fail("Read")
       ELSE IF ~Have(cells, p2, SumBytes) THEN fail("Io")
       ELSE IF SumCells(r.sum) # Slice(cells, p2, SumBytes) THEN fail("Read")
       ELSE IF ~Have(cells, p3, SumBytes) THEN fail("Io")
       ELSE IF SumCells(StreamSum(Slice(cells, 0, p3))) # Slice(cells, p3, SumBytes)
       THEN fail("Read")
       ELSE [ok |-> TRUE, err |-> "", elts |-> r.elts]

\* ================================================================ machine
VARIABLES
    states,     \* Partition.states
    tips,       \* Partition.tips
    unsaved,    \* Partition.unsaved
    ss_num,     \* Partition.ss_num
    commits,    \* Partition.ss_policy.commits
    edits,      \* Partition.ss_policy.edits
    repo_name,  \* Partition.repo_name
    ss_files,   \* the provider's snapshot files
    cl_files,   \* the provider's log files
    clock,      \* the second the system clock shows
    last,       \* the last call: its name, inputs, result and I/O events
    pushed,     \* history: the commits given to add_pair, in order
    phase,      \* history: how far the create-push-write-reopen run got
    saved,      \* history: the tip at the write of that run, the queue replayed
    hashed,     \* the inputs Sum::state_meta_sum was given so far
    part_id     \* Partition.part_id

vars == <<states, tips, unsaved, ss_num, commits, edits, repo_name,
          ss_files, cl_files, clock, last, pushed, phase, saved, hashed,
          part_id>>

Self == [states |-> states, tips |-> tips, unsaved |-> unsaved,
         ss_num |-> ss_num, commits |-> commits, edits |-> edits,
         repo_name |-> repo_name, tab |-> hashed, part_id |-> part_id]
Io == [ss |-> ss_files, cl |-> cl_files]

SetSelf(p) ==
    /\ states' = p.states
    /\ tips' = p.tips
    /\ unsaved' = p.unsaved
    /\ ss_num' = p.ss_num
    /\ commits' = p.commits
    /\ edits' = p.edits
    /\ repo_name' = p.repo_name
    /\ hashed' = p.tab
    /\ part_id' = p.part_id
SetIo(io) ==
    /\ ss_files' = io.ss
    /\ cl_files' = io.cl

\* The record of a call: what was called, what it returned, the I/O events
\* it caused, its flag (fast of write, force of unload, all_history of load)
\* and facts about its input taken before the call:
\*   known    the state-sum of the commit pushed is in states
\*   orphan   the (first) parent of the state or commit pushed is not in states
\*   changed  the state pushed differs in its elements from its parent
\*   fromtip  the state pushed was cloned from the only tip
\* and the repository name given to create or set_repo_name, and the commit
\* given to a replay
Call(op, ret) ==
    [op |-> op, ret |-> ret, trace |-> <<>>, flag |-> FALSE,
     known |-> FALSE, orphan |-> FALSE, changed |-> FALSE, fromtip |-> FALSE,
     name |-> "", commit |-> NoCommit]

\* The commits a step appended to the queue
NewlyPushed(p) ==
    IF Len(p.unsaved) > Len(unsaved)
    THEN SubSeq(p.unsaved, Len(unsaved) + 1, Len(p.unsaved)) ELSE <<>>

EmptyIo == [ss |-> <<>>, cl |-> <<>>]

Init ==
    LET c == Create(EmptyIo, RepoName)
    IN /\ states = c.p.states
       /\ tips = c.p.tips
       /\ unsaved = c.p.unsaved
       /\ ss_num = c.p.ss_num
       /\ commits = c.p.commits
       /\ edits = c.p.edits
       /\ repo_name = c.p.repo_name
       /\ ss_files = c.io.ss
       /\ cl_files = c.io.cl
       /\ clock = 1
       /\ last = Call("create", "Ok")
       /\ pushed = <<>>
       /\ hashed = c.p.tab
       /\ part_id = c.p.part_id
       /\ phase = "pushing"
       /\ saved = BlankState

\* ----------------------------------------------------------------- inputs
\* Every element map over EltIds and Payloads
EltMaps ==
    {m \in SUBSET (EltIds \X Payloads) :
        /\ \A e1 \in m, e2 \in m : e1[1] = e2[1] => e1 = e2
        /\ \A e \in m : e[1] = 1 \/ e[2] = "a"}

\* The MutPartState a client gets by cloning state s and editing it until
\* it holds the map m
Edited(s, m) == ApplyChanges(CloneMut(s), DiffChanges(s.elts, m))

\* The seconds a call can read from the clock
Nows == {t \in {clock, clock + 1} : t <= MaxClock}

\* A sum that names no state of the partition
PhantomSum == {<<"m", 0, "">>}

\* The commits a client builds with Commit::new_explicit for push_commit,
\* as [commit, tab]: for a first parent and a target map, the commit with
\* the state-sum of the state it leads to, naming the second parents x; tab
\* is the table after the client hashed what the commit needed
BuiltCommit(parent, m, x, now, tab) ==
    LET ms == Edited(parent, m)
        parents == <<parent.statesum>> \o x
        meta == [number |-> parent.meta.number + 1, ts |-> now, extra |-> NoExtra]
    IN [commit |-> [statesum |-> Xor(ms.elt_sum, StateMetaSum(parents, meta, tab)),
                    parents |-> parents, changes |-> DiffChanges(parent.elts, m),
                    meta |-> meta],
        tab |-> tab]

\* The maps one change away from map m, and m itself
Near(m) ==
    {n \in EltMaps : Cardinality(DiffChanges(m, n)) <= 1}

\* The state a later push_state of element 1 = "a" onto the blank state s
\* creates, as [sum, tab]
Later(s, now) ==
    LET pre == Pre(<<s.statesum>>,
                   [number |-> s.meta.number + 1, ts |-> now, extra |-> NoExtra])
    IN [sum |-> Xor(EltSum(1, "a"), StateMetaSum(pre.parents, pre.meta, hashed)),
        tab |-> Register(hashed, pre)]

\* Second parents, as [x, tab]: none, an unknown sum, the first parent
\* again, a tip, or the sum of a state that is pushed later
SecondParents(parent, now) ==
    {[x |-> y, tab |-> hashed] :
        y \in {<<>>, <<PhantomSum>>, <<parent.statesum>>}
               \cup {<<t>> : t \in tips \ {parent.statesum}}}
    \cup {[x |-> <<Later(s, now).sum>>, tab |-> Later(s, now).tab] :
            s \in {r \in states : r.elts = {}}}

\* The commits given to push_commit: well-built ones, and ones with another
\* state's sum in place of their own, an unknown first parent, or both
CommitInputs(now) ==
    LET good == UNION {{BuiltCommit(s, m, x.x, now, x.tab) :
                            m \in Near(s.elts), x \in SecondParents(s, now)} :
                       s \in states}
        plain == {c \in good : Len(c.commit.parents) = 1}
    IN good
       \cup {[c EXCEPT !.commit.statesum = t] : c \in plain, t \in Sums(states)}
       \cup {[c EXCEPT !.commit.parents = <<PhantomSum>>] : c \in plain}
       \cup {[c EXCEPT !.commit.parents = <<PhantomSum>>, !.commit.statesum = t] :
                c \in plain, t \in Sums(states)}

\* ---------------------------------------------------------------- actions
\* push_state(state, None) for a state cloned from a known state and edited
DoPushState ==
    /\ Cardinality(states) < MaxStates
    /\ Len(unsaved) < MaxStates
    /\ \E s \in states, m \in EltMaps, now \in Nows :
        \E r \in {PushState(Self, Edited(s, m), NoExtra, now)} :
           /\ SetSelf(r.p)
           /\ clock' = now
           /\ last' = [Call("push_state", r.ret) EXCEPT
                            !.changed = m # s.elts,
                            !.fromtip = tips = {s.statesum}]
           /\ pushed' = pushed \o NewlyPushed(r.p)
           /\ phase' = IF phase = "pushing" /\ tips = {s.statesum}
                       THEN "pushing" ELSE "other"
    /\ UNCHANGED <<ss_files, cl_files, saved>>

\* push_commit(commit)
DoPushCommit ==
    /\ Cardinality(states) < MaxStates
    /\ Len(unsaved) < MaxStates
    /\ \E now \in Nows : \E c \in CommitInputs(now) :
        \E r \in {PushCommit([Self EXCEPT !.tab = c.tab], c.commit)} :
           /\ SetSelf(IF r.ret = "Ok" THEN r.p ELSE Self)
           /\ clock' = now
           /\ last' = [Call("push_commit", r.ret) EXCEPT
                            !.known = Contains(states, c.commit.statesum),
                            !.orphan = ~Contains(states, c.commit.parents[1])]
           /\ pushed' = pushed \o NewlyPushed(r.p)
    /\ phase' = "other"
    /\ UNCHANGED <<ss_files, cl_files, saved>>

\* merge(solver)
DoMerge ==
    /\ Len(unsaved) < MaxStates
    /\ \E now \in Nows : \E r \in MergeRuns(Self, now) :
        /\ SetSelf(r.p)
        /\ clock' = now
        /\ last' = Call("merge", r.ret)
        /\ pushed' = pushed \o NewlyPushed(r.p)
    /\ phase' = "other"
    /\ UNCHANGED <<ss_files, cl_files, saved>>

\* The faults a write call can meet; of the commits of a long queue the
\* first two and the last one are the ones whose write can fail
WriteFaults ==
    {NoFault, Fault("log_open", 0, FALSE), Fault("log_head", 0, FALSE),
     Fault("ss_open", 0, FALSE), Fault("ss_write", 0, FALSE)}
    \cup {Fault("commit", k, t) :
            k \in {0, 1, Len(unsaved) - 1} \cap (0..(Len(unsaved) - 1)),
            t \in BOOLEAN}

\* write(fast, user_fields)
DoWrite ==
    /\ unsaved # <<>> => Cardinality(DOMAIN cl_files) < MaxLogs
    /\ \E fast \in BOOLEAN, fault \in WriteFaults :
        \E r \in {Write(Self, Io, fast, fault)} :
           /\ SetSelf(r.p)
           /\ SetIo(r.io)
           /\ last' = [Call("write", r.ret) EXCEPT !.trace = r.trace, !.flag = fast]
           /\ phase' = IF phase = "pushing" /\ ~fast /\ r.ret \in {"Ok(true)", "Ok(false)"}
                       THEN "written" ELSE "other"
           /\ saved' = IF IsReady(Self) THEN StateOf(states, TipKey(Self).key)
                       ELSE BlankState
    /\ UNCHANGED <<clock, pushed>>

\* unload(force)
DoUnload ==
    /\ \E force \in BOOLEAN :
        \E r \in {Unload(Self, force)} :
           /\ SetSelf(r.p)
           /\ last' = [Call("unload", r.ret) EXCEPT !.flag = force]
    /\ phase' = "other"
    /\ UNCHANGED <<ss_files, cl_files, clock, pushed, saved>>

\* push_state of the only tip with one more element inserted: the n-th push
\* of a run inserts element n
DoChainPush ==
    /\ phase = "pushing"
    /\ IsReady(Self)
    /\ Len(pushed) < MaxChain
    /\ \E now \in Nows :
        \E tip \in {StateOf(states, TipKey(Self).key)} :
        \E r \in {PushState(Self, MutInsert(CloneMut(tip), Len(pushed) + 1, "a"),
                             NoExtra, now)} :
           /\ SetSelf(r.p)
           /\ clock' = now
           /\ last' = [Call("push_state", r.ret) EXCEPT
                            !.changed = TRUE, !.fromtip = TRUE]
           /\ pushed' = pushed \o NewlyPushed(r.p)
    /\ UNCHANGED <<ss_files, cl_files, phase, saved>>

\* push_state of the parent of the only tip with element 1 set to "b": the
\* partition then has two tips
DoForkPush ==
    /\ phase = "pushing"
    /\ IsReady(Self)
    /\ pushed # <<>>
    /\ \E now \in Nows :
        \E s \in {StateOf(states, StateOf(states, TipKey(Self).key).parents[1])} :
        \E r \in {PushState(Self, Edited(s, {e \in s.elts : e[1] # 1}
                                                \cup {<<1, "b">>}),
                             NoExtra, now)} :
           /\ SetSelf(r.p)
           /\ clock' = now
           /\ last' = [Call("push_state", r.ret) EXCEPT !.changed = TRUE]
           /\ pushed' = pushed \o NewlyPushed(r.p)
    /\ phase' = "forked"
    /\ UNCHANGED <<ss_files, cl_files, saved>>

\* The numbers of elements the first push of a run can insert at once
BulkSizes == {2, 3}

\* push_state of the only tip with several elements inserted, as the first
\* push of a run
DoBulkPush ==
    /\ phase = "pushing"
    /\ IsReady(Self)
    /\ pushed = <<>>
    /\ \E now \in Nows, k \in BulkSizes :
        \E tip \in {StateOf(states, TipKey(Self).key)} :
        \E r \in {PushState(Self, Edited(tip, tip.elts \cup
                                {<<MaxChain + i, "a">> : i \in 1..k}),
                             NoExtra, now)} :
           /\ SetSelf(r.p)
           /\ clock' = now
           /\ last' = [Call("push_state", r.ret) EXCEPT
                            !.changed = TRUE, !.fromtip = TRUE]
           /\ pushed' = pushed \o NewlyPushed(r.p)
    /\ UNCHANGED <<ss_files, cl_files, phase, saved>>

\* The first write of a run
DoChainWrite ==
    /\ phase \in {"pushing", "forked"}
    /\ DoWrite

\* Partition::open on the provider in place of the partition, then
\* load(all_history)
DoReopen ==
    /\ phase \in {"written", "other"}
    /\ \E all_history \in BOOLEAN :
        \E r \in {Load([OpenPart EXCEPT !.tab = hashed], Io, all_history)} :
           /\ SetSelf(r.p)
           /\ last' = [Call("load", r.ret) EXCEPT !.flag = all_history]
           /\ phase' = IF phase = "written" /\ ~all_history THEN "loaded"
                       ELSE "reloaded"
    /\ UNCHANGED <<ss_files, cl_files, clock, pushed, saved>>

\* The faults a write_snapshot call can meet
SnapshotFaults == {NoFault, Fault("ss_open", 0, FALSE), Fault("ss_write", 0, FALSE)}

\* write_snapshot(user_fields)
DoWriteSnapshot ==
    /\ FirstFree(DOMAIN ss_files, ss_num + 1) <= MaxSnaps
    /\ \E fault \in SnapshotFaults :
        \E r \in {WriteSnapshot(Self, Io, fault)} :
           /\ SetSelf(r.p)
           /\ SetIo(r.io)
           /\ last' = [Call("write_snapshot", r.ret) EXCEPT !.trace = r.trace]
    /\ phase' = "other"
    /\ UNCHANGED <<clock, pushed, saved>>

\* The user deletes a snapshot file (PartIO: entries may be missing,
\* especially old entries may have been deleted)
DoRemoveSs ==
    /\ \E n \in DOMAIN ss_files :
        ss_files' = [k \in DOMAIN ss_files \ {n} |-> ss_files[k]]
    /\ last' = Call("remove_ss", "Ok")
    /\ phase' = "other"
    /\ UNCHANGED <<states, tips, unsaved, ss_num, commits, edits, repo_name,
                   cl_files, clock, pushed, saved, hashed, part_id>>

\* The repository names a client gives
Names == {RepoName, "other"}

\* The partition numbers a provider can be made with
PartIds == {PartIdNum, PartIdNum + 1}

\* The phases of a run before a partition is created on its provider
\* anew or its partition is opened again
Building == phase \in {"pushing", "forked", "written", "other"}

\* Partition::create(io, name, ..) on the provider in use; when it fails no
\* partition is produced and the client keeps what it had
DoCreate ==
    /\ Building
    /\ \E io \in {Io}, name \in Names \cup {""} :
        \E r \in {Create(io, name)} :
           IF r.ok
           THEN /\ SetSelf([r.p EXCEPT !.tab = hashed])
                /\ SetIo(r.io)
                /\ last' = [Call("create", "Ok") EXCEPT !.name = name]
                /\ phase' = "created"
                /\ UNCHANGED <<pushed, saved>>
           ELSE /\ last' = [Call("create", "Err") EXCEPT !.name = name]
                /\ phase' = "other"
                /\ UNCHANGED <<states, tips, unsaved, ss_num, commits, edits,
                               repo_name, hashed, part_id, ss_files, cl_files,
                               pushed, saved>>
    /\ UNCHANGED clock

\* Partition::open(io) on the provider in use, made with partition number
\* pid, in place of the partition
DoOpen ==
    /\ Building \/ phase = "created"
    /\ \E pid \in PartIds :
        SetSelf([OpenPart EXCEPT !.tab = hashed, !.part_id = pid])
    /\ last' = Call("open", "Ok")
    /\ phase' = "opened"
    /\ UNCHANGED <<ss_files, cl_files, clock, pushed, saved>>

\* set_repo_name(name)
DoSetRepoName ==
    /\ phase \in {"opened", "forced", "unforced"}
    /\ \E name \in Names :
        \E r \in {SetRepoName(Self, name)} :
           /\ SetSelf(r.p)
           /\ last' = [Call("set_repo_name", r.ret) EXCEPT !.name = name]
    /\ UNCHANGED <<ss_files, cl_files, clock, pushed, phase, saved>>

\* load(all_history) on a partition that was opened; afterwards phase
\* tells whether load failed and whether it called require
DoLoad ==
    /\ phase = "opened"
    /\ \E all_history \in BOOLEAN :
        \E r \in {Load(Self, Io, all_history)} :
           /\ SetSelf(r.p)
           /\ last' = [Call("load", r.ret) EXCEPT !.flag = all_history]
           /\ phase' = IF r.ret # "Ok" THEN "failed"
                       ELSE IF r.forced THEN "forced" ELSE "unforced"
    /\ UNCHANGED <<ss_files, cl_files, clock, pushed, saved>>

\* push_state of the only tip with one more element inserted
DoTipPush ==
    /\ phase # "created"
    /\ IsReady(Self)
    /\ Len(pushed) < MaxPushes
    /\ \E now \in Nows :
        \E tip \in {StateOf(states, TipKey(Self).key)} :
        \E r \in {PushState(Self, MutInsert(CloneMut(tip),
                                            FirstFree(Ids(tip.elts), 1), "a"),
                             NoExtra, now)} :
           /\ SetSelf(r.p)
           /\ clock' = now
           /\ last' = [Call("push_state", r.ret) EXCEPT
                            !.changed = TRUE, !.fromtip = TRUE]
           /\ pushed' = pushed \o NewlyPushed(r.p)
    /\ UNCHANGED <<ss_files, cl_files, phase, saved>>

\* write_snapshot before the partition is opened again
DoBuildSnapshot ==
    /\ Building
    /\ DoWriteSnapshot

\* A snapshot file deleted before the partition is opened again
DoBuildRemove ==
    /\ Building
    /\ DoRemoveSs

\* The faults of the writes before a load: none, new_ss_cl fails, or the
\* first commit torn
LoadWriteFaults == {NoFault, Fault("log_open", 0, FALSE), Fault("commit", 0, TRUE)}

\* write(fast, user_fields) while the snapshot numbers are small
DoSmallWrite ==
    /\ phase # "created"
    /\ FirstFree(DOMAIN ss_files, ss_num + 1) <= MaxSnaps
    /\ unsaved # <<>> => Cardinality(DOMAIN cl_files) < MaxLogs
    /\ \E fast \in BOOLEAN, fault \in LoadWriteFaults :
        \E r \in {Write(Self, Io, fast, fault)} :
           /\ SetSelf(r.p)
           /\ SetIo(r.io)
           /\ last' = [Call("write", r.ret) EXCEPT !.trace = r.trace, !.flag = fast]
           /\ phase' = IF Building THEN "other"
                       ELSE IF phase = "forced" /\ ss_num = r.p.ss_num THEN "forced"
                       ELSE "done"
    /\ UNCHANGED <<clock, pushed, saved>>

\* The elements a client inserts into a clone of state s
DagInserts(s) ==
    {e \in EltIds \X Payloads : ~Has(s.elts, e[1]) /\ (e[1] = 1 \/ e[2] = "a")}

\* push_state of a clone of any known state with one element inserted; the
\* same edit of the same state can be pushed again
DoDagPush ==
    /\ phase # "replayed"
    /\ Len(pushed) < MaxDag
    /\ \E s \in states, now \in Nows :
        \E e \in DagInserts(s) :
        \E r \in {PushState(Self, MutInsert(CloneMut(s), e[1], e[2]), NoExtra, now)} :
           /\ Cardinality(r.p.states) <= MaxDag
           /\ SetSelf(r.p)
           /\ clock' = now
           /\ last' = [Call("push_state", r.ret) EXCEPT
                            !.changed = TRUE, !.fromtip = tips = {s.statesum}]
           /\ pushed' = pushed \o NewlyPushed(r.p)
    /\ phase' = "other"
    /\ UNCHANGED <<ss_files, cl_files, saved>>

\* merge(solver) on a history graph
DoDagMerge ==
    /\ phase # "replayed"
    /\ Cardinality(tips) > 1
    /\ Len(pushed) <= MaxDag
    /\ \E now \in Nows : \E r \in MergeRuns(Self, now) :
        /\ Cardinality(r.p.states) <= MaxDag
        /\ SetSelf(r.p)
        /\ clock' = now
        /\ last' = Call("merge", r.ret)
        /\ pushed' = pushed \o NewlyPushed(r.p)
    /\ phase' = "merged"
    /\ UNCHANGED <<ss_files, cl_files, saved>>

\* The state graph: pushes and merges
Next ==
    \/ DoPushState
    \/ DoPushCommit
    \/ DoMerge

Spec == Init /\ [][Next]_vars

\* The write pipeline: pushes, writes with I/O faults, unload
NextWrite ==
    \/ DoPushState
    \/ DoWrite
    \/ DoUnload

SpecWrite == Init /\ [][NextWrite]_vars

\* Writes that are tried again: pushes from the tip, writes with I/O
\* faults, and snapshots written between them
NextFlush ==
    \/ DoTipPush
    \/ DoWrite
    \/ DoWriteSnapshot

SpecFlush == Init /\ [][NextFlush]_vars

\* The run create, pushes from the tip, write, reopen and load
NextS3 ==
    \/ DoChainPush
    \/ DoForkPush
    \/ DoChainWrite
    \/ DoReopen

SpecS3 == Init /\ [][NextS3]_vars

\* The snapshot policy over a run: pushes of one or several edits from the
\* tip, then the write
NextPolicy ==
    \/ DoBulkPush
    \/ DoChainPush
    \/ DoChainWrite

SpecPolicy == Init /\ [][NextPolicy]_vars

\* Open and load: files are written, snapshot files are deleted, the
\* partition is opened again, named and loaded
NextLoad ==
    \/ DoTipPush
    \/ DoForkPush
    \/ DoSmallWrite
    \/ DoBuildSnapshot
    \/ DoBuildRemove
    \/ DoCreate
    \/ DoOpen
    \/ DoSetRepoName
    \/ DoLoad

SpecLoad == Init /\ [][NextLoad]_vars

\* History graphs: pushes from any state and merges of the tips
NextDag ==
    \/ DoDagPush
    \/ DoDagMerge

SpecDag == Init /\ [][NextDag]_vars

\* The commits given to a replay: the commits pushed so far, the commit of
\* an insert into a state, the merge commit of two tips, and each of these
\* with a sum in place of its state-sum that is the sum of no state
ReplayInputs ==
    LET made ==
            Range(pushed)
            \cup UNION {{FromDiff(s, MutInsert(CloneMut(s), e[1], e[2]), NoExtra,
                                  clock, hashed) : e \in DagInserts(s)} : s \in states}
            \cup UNION {{MergeCommit(StateOf(states, t1), StateOf(states, t2),
                            StateOf(states, LatestCommonAncestor(states, t1, t2).key),
                            "a", clock, hashed)
                         : t2 \in {t \in tips \ {t1} :
                                    LatestCommonAncestor(states, t1, t).ok}}
                        : t1 \in tips}
    IN made \cup {[c EXCEPT !.statesum = PhantomSum] : c \in made}

\* LogReplay::from_sets(&mut self.states, &mut self.tips).replay(queue) with
\* one commit in the queue, once in a run
DoDagReplay ==
    /\ phase # "replayed"
    /\ \E c \in ReplayInputs :
        \E r \in {Replay(states, tips, <<c>>, hashed)} :
           /\ states' = r.states
           /\ tips' = r.tips
           /\ hashed' = Register(hashed, Pre(c.parents, c.meta))
           /\ last' = [Call("replay", IF r.ok THEN "Ok" ELSE "Err") EXCEPT !.commit = c]
    /\ phase' = "replayed"
    /\ UNCHANGED <<unsaved, ss_num, commits, edits, repo_name, ss_files,
                   cl_files, clock, pushed, saved, part_id>>

\* merge(solver) on a history graph with any number of tips
DoTipsMerge ==
    /\ Len(pushed) <= MaxDag
    /\ \E now \in Nows : \E r \in MergeRuns(Self, now) :
        /\ Cardinality(r.p.states) <= MaxDag + 1
        /\ SetSelf(r.p)
        /\ clock' = now
        /\ last' = Call("merge", r.ret)
        /\ pushed' = pushed \o NewlyPushed(r.p)
    /\ phase' = "merged"
    /\ UNCHANGED <<ss_files, cl_files, saved>>

\* History graphs and merges of none, two or more tips
NextMerge ==
    \/ DoDagPush
    \/ DoTipsMerge

SpecMerge == Init /\ [][NextMerge]_vars

\* A commit whose first parent no log holds
Orphan(c) == [c EXCEPT !.parents = <<PhantomSum>>, !.statesum = Xor(@, PhantomSum)]

\* The queues read from logs that hold the commits pushed so far in any
\* order, with or without an orphan among them
ReplayQueues ==
    UNION {{[i \in 1..Len(q) |-> q[f[i]]] :
                f \in {g \in [1..Len(q) -> 1..Len(q)] :
                          \A i \in 1..Len(q) : \A j \in 1..Len(q) : g[i] = g[j] => i = j}}
           : q \in {pushed, <<Orphan(pushed[1])>> \o pushed}}

\* LogReplay::from_sets(states, tips).replay(queue) on a partition that holds
\* the blank state only, once in a run
DoQueueReplay ==
    /\ phase # "replayed"
    /\ pushed # <<>>
    /\ Len(pushed) <= MaxStates
    /\ \E q \in ReplayQueues :
        \E r \in {Replay({BlankState}, {BlankState.statesum}, q, hashed)} :
           /\ states' = r.states
           /\ tips' = r.tips
           /\ saved' = q
           /\ last' = [Call("replay", IF r.ok THEN "Ok" ELSE "Err") EXCEPT
                          !.flag = TRUE, !.trace = r.left]
    /\ phase' = "replayed"
    /\ UNCHANGED <<unsaved, ss_num, commits, edits, repo_name, ss_files,
                   cl_files, clock, pushed, hashed, part_id>>

\* History graphs and the replay of one commit or of a queue on them
NextReplay ==
    \/ DoDagPush
    \/ DoDagMerge
    \/ DoDagReplay
    \/ DoQueueReplay

SpecReplay == Init /\ [][NextReplay]_vars

\* Snapshots written directly: pushes, write_snapshot with I/O faults,
\* unload, and snapshot files deleted by the user
NextSnap ==
    \/ DoPushState
    \/ DoWriteSnapshot
    \/ DoUnload
    \/ DoRemoveSs

SpecSnap == Init /\ [][NextSnap]_vars

\* ------------------------------------------------------------ the codecs
\* The tests commit_write_read and snapshot_writing with their inputs drawn
\* from the sets below. cl_files holds the log written so far and unsaved
\* the commits it was written from, saved the positions where its records
\* end; ss_files holds the snapshot written and saved the element map it
\* was written from; pushed holds what read_log
\* or read_snapshot returned.

\* Most commits written to one log
MaxRecords == 2

\* n bytes of text: a, b, c, ...
Fill(n) == [i \in 1..n |-> 96 + i]
\* A sum made up for a commit, as the test makes them up
FunSum(i) == {<<"p", i, <<>>>>}

CodecExtras == {XmNone} \cup {[tag |-> "Text", text |-> Fill(n)] : n \in {0, 5, 16}}
EltChange(id, op, data, new_id) == [id |-> id, op |-> op, data |-> data, new_id |-> new_id]
\* The changes of a commit, in the order the map yields them
ChangeLists ==
    {<<>>,
     <<EltChange(1, "Delete", <<>>, 0)>>,
     <<EltChange(1, "Insert", <<>>, 0)>>,
     <<EltChange(1, "Insert", Fill(5), 0)>>,
     <<EltChange(1, "Insert", Fill(16), 0)>>,
     <<EltChange(1, "Replace", Fill(17), 0)>>,
     <<EltChange(1, "MovedOut", <<>>, 7)>>,
     <<EltChange(1, "Moved", <<>>, 7)>>,
     <<EltChange(1, "Delete", <<>>, 0), EltChange(2, "Insert", Fill(5), 0)>>,
     <<EltChange(2, "Insert", Fill(5), 0), EltChange(1, "Delete", <<>>, 0)>>,
     <<EltChange(1, "Replace", Fill(5), 0), EltChange(300, "Moved", <<>>, 65536)>>,
     <<EltChange(3, "Insert", Fill(5), 0), EltChange(4, "Insert", Fill(4), 0),
       EltChange(5, "Insert", Fill(4), 0)>>}

\* The commits written: the number of parents, the extra metadata and the
\* list of changes of each
CodecInputs ==
    ({1} \X CodecExtras \X ChangeLists)
    \cup ({2, 255} \X {XmNone, [tag |-> "Text", text |-> Fill(5)]}
          \X {x \in ChangeLists : Len(x) \in {0, 3}})

\* The commit with n parents, the extra metadata and the changes given;
\* its number and time vary with n
CodecCommit(n, extra, chs) ==
    [statesum |-> FunSum(0),
     parents |-> [i \in 1..n |-> FunSum(i)],
     changes |-> Range(chs),
     meta |-> [number |-> IF n = 1 THEN 1 ELSE 65536 + n,
               ts |-> IF n = 2 THEN -2 ELSE 123456,
               extra |-> extra]]

\* The types of extra metadata that write_commit does not write
ForeignTypes == {<<90, 90>>, <<84, 0>>, <<0, 1>>}

\* The element maps of snapshot_writing, as lists in the order the map
\* yields the elements
Element(id, data) == [id |-> id, data |-> data, sum |-> Calculate(data)]
EltLists ==
    {<<>>}
    \cup {<<Element(id, Fill(n))>> : id \in {1, 300}, n \in {0, 5, 16, 17}}
    \cup {<<Element(x[1], Fill(n)), Element(x[2], Fill(m))>> :
            x \in {<<1, 2>>, <<2, 1>>, <<1, 300>>}, n \in {0, 5, 16, 17}, m \in {5, 16, 33}}
\* UTC::today() as %Y%m%d
Dates == {<<50, 48, 49, 53, 49, 50, 51, 49>>, <<50, 48, 49, 54, 48, 49, 48, 49>>}

InitCodec ==
    LET c == Create(EmptyIo, RepoName)
    IN /\ states = c.p.states
       /\ tips = c.p.tips
       /\ unsaved = <<>>
       /\ ss_num = c.p.ss_num
       /\ commits = c.p.commits
       /\ edits = c.p.edits
       /\ repo_name = c.p.repo_name
       /\ ss_files = <<>>
       /\ cl_files = <<>>
       /\ clock = 1
       /\ last = Call("", "")
       /\ pushed = <<>>
       /\ hashed = c.p.tab
       /\ part_id = c.p.part_id
       /\ phase = "codec"
       /\ saved = {}

\* start_log on an empty stream
DoStartLog ==
    /\ phase = "codec"
    /\ cl_files' = StartLog
    /\ phase' = "log"
    /\ saved' = <<>>
    /\ last' = Call("start_log", "Ok")
    /\ UNCHANGED <<states, tips, unsaved, ss_num, commits, edits, repo_name,
                   ss_files, clock, pushed, hashed, part_id>>

\* write_commit of one more commit
DoWriteCommit ==
    /\ phase = "log"
    /\ Len(unsaved) < MaxRecords
    /\ \E x \in CodecInputs :
        \E c \in {CodecCommit(x[1], x[2], x[3])} :
           /\ cl_files' = cl_files \o WriteCommit(c, x[3])
           /\ unsaved' = Append(unsaved, c)
    /\ saved' = Append(saved, Len(cl_files'))
    /\ last' = Call("write_commit", "Ok")
    /\ UNCHANGED <<states, tips, ss_num, commits, edits, repo_name,
                   ss_files, clock, pushed, phase, hashed, part_id>>

\* The log after the last write_commit was cut short, k bytes into the
\* record or k bytes before its end, or after the checksum at its end was
\* damaged
DoTearLog ==
    /\ phase = "log"
    /\ unsaved # <<>>
    /\ \E start \in {IF Len(saved) = 1 THEN 16 ELSE saved[Len(saved) - 1]} :
       \E end \in {Len(cl_files)} :
       \E k \in {start + 1, start + 16, start + 40, end - 33, end - 1, end} :
          cl_files' = IF k = end
                      THEN SubSeq(cl_files, 1, end - SumBytes) \o SumCells(StreamSum(<<>>))
                      ELSE SubSeq(cl_files, 1, k)
    /\ phase' = "torn"
    /\ last' = [Call("write_commit", "IoErr") EXCEPT !.name = "torn"]
    /\ UNCHANGED <<states, tips, unsaved, ss_num, commits, edits, repo_name,
                   ss_files, clock, pushed, saved, hashed, part_id>>

\* A record that another writer appended: as write_commit writes it, but
\* with extra metadata of a type that write_commit does not know
DoForeignCommit ==
    /\ phase = "log"
    /\ Len(unsaved) < MaxRecords
    /\ \E n \in {1, 2}, type \in ForeignTypes, len \in {0, 5},
          chs \in {<<>>, <<EltChange(1, "Insert", Fill(5), 0)>>} :
        \E c \in {CodecCommit(n, XmNone, chs)} :
           /\ cl_files' = cl_files \o CommitBytes(c, chs,
                             Lit(<<88, 77>> \o type) \o BigEndian(len, 4)
                             \o Lit(Fill(len)) \o Zeros(PadLen(len)))
           /\ unsaved' = Append(unsaved, c)
    /\ phase' = "foreign"
    /\ last' = [Call("write_commit", "Ok") EXCEPT !.name = "foreign"]
    /\ UNCHANGED <<states, tips, ss_num, commits, edits, repo_name,
                   ss_files, clock, pushed, saved, hashed, part_id>>

\* read_log of the stream, into a Vec
DoReadLog ==
    /\ phase \in {"log", "foreign", "torn"}
    /\ \E r \in {ReadLogBytes(cl_files)} :
        /\ last' = Call("read_log", IF r.ok THEN "Ok" ELSE r.err)
        /\ pushed' = r.commits
    /\ phase' = IF phase = "log" THEN "logread"
                ELSE IF phase = "torn" THEN "tornread" ELSE "foreignread"
    /\ UNCHANGED <<states, tips, unsaved, ss_num, commits, edits, repo_name,
                   ss_files, cl_files, clock, saved, hashed, part_id>>

\* write_snapshot of an element map
DoSnapshotWriting ==
    /\ phase = "codec"
    /\ \E es \in EltLists, date \in Dates :
        /\ ss_files' = WriteSnapshotBytes(es, date)
        /\ saved' = Range(es)
    /\ phase' = "snap"
    /\ last' = Call("write_snapshot", "Ok")
    /\ UNCHANGED <<states, tips, unsaved, ss_num, commits, edits, repo_name,
                   cl_files, clock, pushed, hashed, part_id>>

\* read_snapshot of the stream
DoSnapshotReading ==
    /\ phase = "snap"
    /\ \E r \in {ReadSnapshotBytes(ss_files)} :
        /\ last' = Call("read_snapshot", IF r.ok THEN "Ok" ELSE r.err)
        /\ pushed' = r.elts
    /\ phase' = "snapread"
    /\ UNCHANGED <<states, tips, unsaved, ss_num, commits, edits, repo_name,
                   ss_files, cl_files, clock, saved, hashed, part_id>>

NextCodec ==
    \/ DoStartLog \/ DoWriteCommit \/ DoForeignCommit \/ DoReadLog \/ DoTearLog
    \/ DoSnapshotWriting \/ DoSnapshotReading
SpecCodec == InitCodec /\ [][NextCodec]_vars


\* ============================================================= properties
\* The policy counters and the three collections of the partition
Frame == <<states, tips, unsaved, commits, edits>>

\* The statesums of states that no state of states lists among its parents
Childless == {s \in Sums(states) : \A c \in states : s \notin Range(c.parents)}

\* C1: after any sequence of push_state, push_commit and merge, tips is
\* exactly the set of statesums in states that no state in states lists
\* among its parents.
TipInvariant == tips = Childless

\* C2: push_state of an unchanged clone of a state in states returns
\* Ok(false) and leaves states, tips, unsaved and the policy counters as
\* they were.
NoOpPush ==
    [][(last'.op = "push_state" /\ ~last'.orphan /\ ~last'.changed)
        => (last'.ret = "Ok(false)" /\ UNCHANGED Frame)]_vars

\* A no-op push happened on a partition that holds pushed states
NoOpPushSeen ==
    /\ last.op = "push_state" /\ ~last.changed /\ last.ret = "Ok(false)"
    /\ Cardinality(states) > 1

\* C3: push_state of a changed clone of the sole tip returns Ok(true),
\* appends exactly one commit at the back of unsaved, adds exactly one state
\* to states, and makes the new state the sole tip, with the previous tip as
\* its only parent.
PushFromSoleTip ==
    [][(last'.op = "push_state" /\ last'.fromtip /\ last'.changed)
        => /\ last'.ret = "Ok(true)"
           /\ Len(unsaved') = Len(unsaved) + 1
           /\ SubSeq(unsaved', 1, Len(unsaved)) = unsaved
           /\ states \subseteq states'
           /\ Cardinality(states') = Cardinality(states) + 1
           /\ \E new \in states' \ states :
                /\ tips' = {new.statesum}
                /\ tips = {new.parents[1]}
                /\ Len(new.parents) = 1
                /\ new.statesum \notin tips
                /\ unsaved'[Len(unsaved')].statesum = new.statesum
           /\ commits' = commits + 1]_vars

\* A changed clone of the sole tip was pushed onto a chain of two states
PushFromSoleTipSeen ==
    /\ last.op = "push_state" /\ last.fromtip /\ last.changed
    /\ last.ret = "Ok(true)"
    /\ Cardinality(states) = 3
    /\ Cardinality(tips) = 1

\* C4: push_commit fails with SumClash when the commit's statesum is in
\* states, otherwise with NoParent when its first parent is not in states;
\* a failed push_commit leaves states, tips, unsaved and the policy counters
\* as they were.
PushCommitErrors ==
    [][(last'.op = "push_commit")
        => /\ last'.known => last'.ret = "SumClash"
           /\ (~last'.known /\ last'.orphan) => last'.ret = "NoParent"
           /\ last'.ret \in {"SumClash", "NoParent"} => UNCHANGED Frame]_vars

\* A commit with a known statesum and an unknown first parent was refused
\* with SumClash on a partition that holds pushed states
SumClashSeen ==
    /\ last.op = "push_commit" /\ last.known /\ last.orphan
    /\ last.ret = "SumClash"
    /\ Cardinality(states) > 1

RECURSIVE LoggedIn(_, _)
\* The complete commits of the log files at slots, one file after the other
LoggedIn(io, slots) ==
    IF slots = <<>> THEN <<>>
    ELSE The({io.cl[Head(slots)].commits \o rest :
                rest \in {The({LoggedIn(io, t) : t \in {Tail(slots)}})}})

\* The complete commits in the provider's log files, in file order
Logged(io) == LoggedIn(io, LogSlots(io, 0, SsLen(io)))

\* The slots of the log files a step created
NewSlots == {k \in DOMAIN cl_files' : k \notin DOMAIN cl_files}

\* C5: the commits in the log files, read in file order, followed by the
\* commits still in unsaved, are the commits pushed, in the order of their
\* add_pair calls: write neither reorders commits within a call nor across
\* calls.
FifoOrder == Logged(Io) \o unsaved = pushed

\* Two commits were written by two write calls, one log file each
FifoTwoWrites ==
    /\ Cardinality(DOMAIN cl_files) = 2
    /\ \A k \in DOMAIN cl_files : Len(cl_files[k].commits) = 1
    /\ Len(pushed) = 2 /\ pushed[1] # pushed[2]

\* C6: a write that fails leaves in unsaved exactly the commits it did not
\* write completely, in their order: the commits of the file it created
\* followed by unsaved afterwards are unsaved before, and the commit whose
\* write stopped part-way is the first one left.
WritePartial ==
    [][(last'.op = "write" /\ last'.ret = "IoErr")
        => /\ Cardinality(NewSlots) <= 1
           /\ NewSlots = {} => unsaved' = unsaved
           /\ \A k \in NewSlots :
                /\ unsaved = cl_files'[k].commits \o unsaved'
                /\ cl_files'[k].torn # <<>> =>
                     (unsaved' # <<>> /\ cl_files'[k].torn[1] = unsaved'[1])]_vars

\* A write of two commits failed at the second: the first is in the log,
\* the second is still in unsaved
PartialWriteSeen ==
    /\ last.op = "write" /\ last.ret = "IoErr"
    /\ Len(pushed) = 2 /\ unsaved = <<pushed[2]>>
    /\ \E k \in DOMAIN cl_files : cl_files[k].commits = <<pushed[1]>>
    /\ Cardinality(DOMAIN cl_files) = 1

\* C7: a write that returns Ok returns true exactly when unsaved was not
\* empty at the start of the call, in which case it wrote a commit; after
\* an Ok return unsaved is empty.
WriteReturn ==
    [][(last'.op = "write" /\ last'.ret \in {"Ok(true)", "Ok(false)"})
        => /\ (last'.ret = "Ok(true)") <=> (unsaved # <<>>)
           /\ (last'.ret = "Ok(true)") <=>
                (\E k \in NewSlots : cl_files'[k].commits # <<>>)
           /\ unsaved' = <<>>]_vars

\* A write found nothing to do after an earlier write had saved a commit
WriteFalseSeen ==
    /\ last.op = "write" /\ last.ret = "Ok(false)"
    /\ pushed # <<>> /\ unsaved = <<>>

\* C8: after create, pushes of states cloned from the current tip and a
\* successful write(false), a partition opened on the same provider and
\* loaded with load(false) has exactly one tip, and that tip has the
\* statesum and the element map of the tip before the write.
DurableRoundTrip ==
    phase = "loaded" =>
        /\ last.ret = "Ok"
        /\ Cardinality(tips) = 1
        /\ \A t \in tips :
            /\ t = saved.statesum
            /\ Contains(states, t)
            /\ StateOf(states, t).elts = saved.elts

\* The events of a call that write a snapshot file, completely or not
SnapshotEvents == {"snapshot", "snapshot_torn"}

\* C9: within one write call every commit that was in unsaved at the start
\* of the call is written to the log before the snapshot is, and no commit
\* is written after the snapshot.
SnapshotAfterCommits ==
    [][(last'.op = "write")
        => \A i \in 1..Len(last'.trace) :
            last'.trace[i].ev \in SnapshotEvents =>
                /\ \A j \in 1..Len(unsaved) :
                    \E m \in 1..(i - 1) :
                        /\ last'.trace[m].ev = "commit"
                        /\ last'.trace[m].idx = j
                        /\ unsaved[j] \in Range(Logged([ss |-> ss_files', cl |-> cl_files']))
                /\ \A m \in (i + 1)..Len(last'.trace) :
                        last'.trace[m].ev # "commit"
                /\ unsaved' = <<>>]_vars

\* A write call flushed 31 commits and then wrote a snapshot
RotationAfterFlush ==
    /\ last.op = "write"
    /\ Len(last.trace) = 33
    /\ last.trace[33].ev = "snapshot"
    /\ \A m \in 2..32 : last.trace[m].ev = "commit"

\* C10: write creates a snapshot file only when fast is false, the
\* partition has exactly one tip and the policy says a snapshot is due, and
\* then it does unless an I/O error stops it; write(true) leaves the
\* snapshot files alone; the write(false) after 31 pushes of one insert each
\* on a new partition creates snapshot 1 and no other, and resets the
\* policy counters.
SnapshotStep ==
    [][(last'.op = "write")
        => /\ ss_files' # ss_files =>
                (~last'.flag /\ IsReady(Self) /\ PolicySnapshot(Self))
           /\ last'.flag => ss_files' = ss_files
           /\ (~last'.flag /\ IsReady(Self) /\ PolicySnapshot(Self)
                    /\ last'.ret \in {"Ok(true)", "Ok(false)"})
                => (ss_num' > ss_num /\ ss_num' \in DOMAIN ss_files'
                        /\ ss_num' \notin DOMAIN ss_files)
           /\ (phase = "pushing" /\ Len(pushed) = 31 /\ ~last'.flag
                    /\ last'.ret = "Ok(true)")
                => /\ DOMAIN ss_files' = {0, 1}
                   /\ ss_files'[0] = ss_files[0]
                   /\ ss_num' = 1
                   /\ commits' = 0 /\ edits' = 0]_vars

\* The write(false) after 31 pushes created snapshot 1 and reset the policy
RotationSeen ==
    /\ last.op = "write" /\ ~last.flag /\ last.ret = "Ok(true)"
    /\ Len(pushed) = 31 /\ phase = "written"
    /\ DOMAIN ss_files = {0, 1} /\ ss_num = 1
    /\ commits = 0 /\ edits = 0

\* C11: a write_snapshot that succeeds writes the tip's elements to the
\* smallest snapshot number above ss_num that no file has, sets ss_num to
\* it and sets both policy counters to zero; it touches no other file and
\* not the states.
WriteSnapshotOk ==
    [][(last'.op = "write_snapshot" /\ last'.ret = "Ok")
        => /\ ss_num' > ss_num
           /\ ss_num' \notin DOMAIN ss_files
           /\ \A k \in (ss_num + 1)..(ss_num' - 1) : k \in DOMAIN ss_files
           /\ DOMAIN ss_files' = DOMAIN ss_files \cup {ss_num'}
           /\ \A k \in DOMAIN ss_files : ss_files'[k] = ss_files[k]
           /\ \E t \in tips :
                /\ tips = {t}
                /\ ReadSnapshot(ss_files'[ss_num']).ok
                /\ ReadSnapshot(ss_files'[ss_num']).state.elts
                        = StateOf(states, t).elts
           /\ ss_files'[ss_num'].head.name = repo_name
           /\ commits' = 0 /\ edits' = 0
           /\ UNCHANGED <<states, tips, unsaved, cl_files>>]_vars

\* write_snapshot skipped the taken number 1, wrote a tip with elements to
\* number 2 while number 0 was free, and reset counters that were not zero
WriteSnapshotSkipped ==
    /\ last.op = "write_snapshot" /\ last.ret = "Ok"
    /\ ss_num = 2 /\ DOMAIN ss_files = {1, 2}
    /\ ~ss_files[1].intact
    /\ ss_files[2].elements # {}
    /\ commits = 0 /\ edits = 0 /\ unsaved # <<>>

WriteSnapshotNoOp ==
    [][(last'.op = "write_snapshot" /\ Cardinality(tips) # 1)
        => /\ last'.ret = "Ok"
           /\ UNCHANGED <<ss_files, cl_files, ss_num, commits, edits>>]_vars

\* The number of changes in the commits of q
ChangesIn(q) ==
    Cardinality(UNION {{<<i, ch>> : ch \in q[i].changes} : i \in 1..Len(q)})

\* C14: while the counters were not reset since create, c is the number of
\* commits given to add_pair and e the number of their changes, and the
\* policy wants a snapshot exactly when c * 5 + e > 150; every add_pair adds
\* 1 to c and the number of changes of its commit to e.
PolicyCounts ==
    /\ [](phase \in {"pushing", "forked"} =>
            /\ commits = Len(pushed)
            /\ edits = ChangesIn(pushed)
            /\ PolicySnapshot(Self) <=> Len(pushed) * 5 + ChangesIn(pushed) > 150)
    /\ [][Len(pushed') = Len(pushed) + 1 =>
            /\ commits' = commits + 1
            /\ edits' = edits + Cardinality(pushed'[Len(pushed')].changes)]_vars

\* 25 commits with 27 changes were counted: the policy wants a snapshot
\* that 25 commits of one change each do not bring about
PolicyJustOver ==
    /\ phase = "pushing"
    /\ Len(pushed) = 25 /\ commits = 25 /\ edits = 27
    /\ PolicySnapshot(Self)

\* C15: from the load that forced the policy on, whatever commits and edits
\* are counted, the policy wants a snapshot in every state until a snapshot
\* is written; the reset at a written snapshot leaves the policy not
\* wanting one.
ForcedUntilReset ==
    /\ [](phase = "forced" => PolicySnapshot(Self))
    /\ [][last'.op \in {"write", "write_snapshot"} /\ ss_num' # ss_num =>
            /\ commits' = 0 /\ edits' = 0
            /\ ~PolicySnapshot(Self')
            /\ phase' # "forced"]_vars

\* The policy was forced by a load and a commit was counted since
ForcedAndCounting ==
    /\ phase = "forced"
    /\ unsaved # <<>>
    /\ edits > 0
    /\ last.op = "push_state"

\* C16: create with a valid name on a provider whose snapshot slot 0 is
\* free returns Ok, writes snapshot 0 (a complete snapshot of no elements
\* under the name given) and nothing else, and the partition is ready: its
\* states hold the blank state only (no elements, no parents), which is the
\* sole tip, ss_num is 0 and unsaved is empty.  With slot 0 occupied create
\* fails, no file changes and no partition is produced.
CreateFresh ==
    [][last'.op = "create" /\ ValidRepoName(last'.name) =>
        IF 0 \notin DOMAIN ss_files
        THEN /\ last'.ret = "Ok"
             /\ DOMAIN ss_files' = DOMAIN ss_files \cup {0}
             /\ \A n \in DOMAIN ss_files : ss_files'[n] = ss_files[n]
             /\ cl_files' = cl_files
             /\ ss_files'[0].head.name = last'.name
             /\ ReadSnapshot(ss_files'[0]).ok
             /\ ReadSnapshot(ss_files'[0]).state.elts = {}
             /\ Cardinality(states') = 1
             /\ \A st \in states' :
                    /\ st.elts = {} /\ st.parents = <<>>
                    /\ tips' = {st.statesum}
             /\ IsReady(Self')
             /\ ss_num' = 0
             /\ unsaved' = <<>>
             /\ repo_name' = last'.name
        ELSE /\ last'.ret = "Err"
             /\ UNCHANGED <<ss_files, cl_files>>
             /\ UNCHANGED <<states, tips, unsaved, ss_num, commits, edits,
                            repo_name, part_id>>]_vars

\* A partition was created on a provider that holds log files of an
\* earlier partition and whose slot 0 had been freed
CreatedOverLogs ==
    /\ last.op = "create" /\ last.ret = "Ok"
    /\ cl_files # <<>>
    /\ phase = "created"

\* C17: the number of tips decides the status.  With no tip (as after
\* open) the partition is not loaded and tip_key and tip fail with
\* NotReady; with one tip it is ready, tip_key returns that sum and tip a
\* state of states with that sum; with several tips a merge is required
\* and tip_key and tip fail with MergeRequired.  is_ready equals
\* is_loaded && !merge_required.
TipStatus ==
    LET n == Cardinality(tips)
        k == TipKey(Self)
        t == Tip(Self)
    IN /\ n = 0 =>
            /\ ~IsLoaded(Self) /\ ~IsReady(Self) /\ ~MergeRequired(Self)
            /\ ~k.ok /\ k.err = "NotReady"
            /\ ~t.ok /\ t.err = "NotReady"
       /\ n = 1 =>
            /\ IsLoaded(Self) /\ IsReady(Self) /\ ~MergeRequired(Self)
            /\ k.ok /\ tips = {k.key}
            /\ t.ok /\ t.state \in states /\ t.state.statesum = k.key
       /\ n > 1 =>
            /\ IsLoaded(Self) /\ ~IsReady(Self) /\ MergeRequired(Self)
            /\ ~k.ok /\ k.err = "MergeRequired"
            /\ ~t.ok /\ t.err = "MergeRequired"
       /\ IsReady(Self) <=> (IsLoaded(Self) /\ ~MergeRequired(Self))
       /\ phase = "opened" => n = 0

\* A load left the partition with several tips
LoadedWithTips ==
    /\ last.op = "load"
    /\ Cardinality(tips) > 1
    /\ ~IsReady(Self) /\ MergeRequired(Self)

\* The number of the latest snapshot file, -1 when there is none
LatestSs == IF DOMAIN ss_files = {} THEN -1 ELSE MaxOf(DOMAIN ss_files)

\* The state load(false) starts from: the state of the latest snapshot
\* file, the blank state when there is none
LoadBase ==
    IF LatestSs = -1 THEN BlankState ELSE ReadSnapshot(ss_files[LatestSs]).state

RECURSIVE CommitsOf(_)
\* The commits of the log files slots, in order
CommitsOf(slots) ==
    IF slots = <<>> THEN <<>>
    ELSE cl_files[Head(slots)].commits \o CommitsOf(Tail(slots))

\* The commits of the log files from the latest snapshot on
LoadQueue ==
    LET from == IF LatestSs = -1 THEN 0 ELSE LatestSs
        S == {k \in DOMAIN cl_files : k[1] >= from}
    IN CommitsOf(SortSeq(CHOOSE q \in [1..Cardinality(S) -> S] : Range(q) = S,
                         LAMBDA a, b : a[1] < b[1] \/ (a[1] = b[1] /\ a[2] < b[2])))

\* C18: load(false) on an opened partition, when it succeeds, leaves the
\* states and tips that replaying the commits of every log file of the
\* snapshot numbers from the latest existing snapshot up to L-1, in order,
\* on the state of that snapshot gives; with no snapshot file in 0..L-1 the
\* replay starts from a blank state and takes the log files of all numbers.
LoadLatestFrom ==
    [][(last'.op = "load" /\ ~last'.flag /\ last'.ret = "Ok" /\ phase = "opened") =>
        LET r == Replay({LoadBase}, {LoadBase.statesum}, LoadQueue, hashed)
        IN /\ SsLen(Io) > 0
           /\ LoadBase \in states'
           /\ states' = r.states
           /\ tips' = r.tips
           /\ \A c \in Range(LoadQueue) :
                Contains(states', c.parents[1]) => Contains(states', c.statesum)
           /\ ss_num' = SsLen(Io) - 1
           /\ UNCHANGED <<ss_files, cl_files, unsaved>>]_vars

\* load(false) found the latest snapshot missing, went back to an older
\* one and replayed commits on it
LoadedFromOlder ==
    /\ last.op = "load" /\ ~last.flag /\ last.ret = "Ok"
    /\ DOMAIN ss_files # {}
    /\ LatestSs < SsLen(Io) - 1
    /\ Cardinality(states) > 1

\* C19: a successful load on an opened partition that did not read the
\* snapshot of number L-1 (it went back to an older one, or found none)
\* leaves the policy wanting a snapshot, one that read the snapshot of
\* number L-1 leaves the policy as the counts make it; and a write(false)
\* that meets no I/O error on a ready partition whose policy a load forced
\* writes a new snapshot.
ForcedAfterOlder ==
    /\ [][(last'.op = "load" /\ last'.ret = "Ok" /\ phase = "opened") =>
            IF LatestSs = SsLen(Io) - 1
            THEN phase' = "unforced" /\ commits' < RequireCommits
            ELSE phase' = "forced" /\ PolicySnapshot(Self')]_vars
    /\ [][(phase = "forced" /\ IsReady(Self) /\ last'.op = "write" /\ ~last'.flag
            /\ last'.ret \in {"Ok(true)", "Ok(false)"}) =>
            /\ ss_num' > ss_num
            /\ ss_num' \in DOMAIN ss_files' \ DOMAIN ss_files]_vars

\* What load does about the policy: load(false) forces it exactly when its
\* scan ended below L-1 (an older snapshot was read, or none was found and
\* L > 1), load(true) never forces it; a forced policy makes the next
\* write(false) without I/O error on a ready partition write a snapshot.
ForcedWhenScanWentBack ==
    /\ [][(last'.op = "load" /\ last'.ret = "Ok" /\ phase = "opened") =>
            IF last'.flag \/ LatestSs = SsLen(Io) - 1
                          \/ (LatestSs = -1 /\ SsLen(Io) = 1)
            THEN phase' = "unforced" /\ commits' < RequireCommits
            ELSE phase' = "forced" /\ PolicySnapshot(Self')]_vars
    /\ [][(phase = "forced" /\ IsReady(Self) /\ last'.op = "write" /\ ~last'.flag
            /\ last'.ret \in {"Ok(true)", "Ok(false)"}) =>
            /\ ss_num' > ss_num
            /\ ss_num' \in DOMAIN ss_files' \ DOMAIN ss_files]_vars

\* The headers of the files a load reads when no read fails: with
\* all_history every snapshot and log file, without it the latest snapshot
\* and the log files from its number on
HeadersRead(all_history) ==
    LET from == IF all_history \/ LatestSs = -1 THEN 0 ELSE LatestSs
    IN {ss_files[n].head : n \in {k \in DOMAIN ss_files : all_history \/ k = LatestSs}}
       \cup {cl_files[k].head : k \in {x \in DOMAIN cl_files : x[1] >= from}}

\* C20: a load succeeds only if every header it read carries the
\* partition's part_id and the partition's repo_name, where an empty
\* repo_name was first fixed to the name in the header; a header that
\* differs in either makes load fail.  A repo_name that is not empty is
\* changed by no operation on the partition, and set_repo_name returns Ok
\* exactly when the name is empty (and is then set) or equal to the one
\* given.
HeadersVerified ==
    /\ [][(last'.op = "load" /\ phase = "opened" /\ last'.ret = "Ok") =>
            /\ HeadersRead(last'.flag) # {}
            /\ \A h \in HeadersRead(last'.flag) :
                    /\ h.name = repo_name'
                    /\ h.part_id = part_id
            /\ repo_name # "" => repo_name' = repo_name]_vars
    /\ [][(repo_name # "" /\ last'.op # "open"
            /\ ~(last'.op = "create" /\ last'.ret = "Ok")) =>
            repo_name' = repo_name]_vars
    /\ [][last'.op = "set_repo_name" =>
            IF repo_name = ""
            THEN last'.ret = "Ok" /\ repo_name' = last'.name
            ELSE /\ repo_name' = repo_name
                 /\ last'.ret = (IF last'.name = repo_name THEN "Ok" ELSE "Err")]_vars

\* A load failed on sound files of the right partition number, written
\* under another repository name than the one the partition was given
LoadRefusedName ==
    /\ last.op = "load" /\ last.ret = "Err"
    /\ repo_name = "other"
    /\ part_id = PartIdNum
    /\ DOMAIN ss_files # {} /\ DOMAIN cl_files # {}
    /\ \A n \in DOMAIN ss_files :
            /\ ReadHeadOk(ss_files[n]) /\ ReadSnapshot(ss_files[n]).ok
            /\ ss_files[n].head = Header("PIPPINSS", RepoName, PartIdNum)
    /\ \A k \in DOMAIN cl_files :
            /\ ReadHeadOk(cl_files[k]) /\ ReadLog(cl_files[k]).ok
            /\ cl_files[k].head = Header("PIPPINCL", RepoName, PartIdNum)

\* The parents of the state of sum k that states holds
ParentsOf(k) == IF Contains(states, k) THEN Range(StateOf(states, k).parents) ELSE {}

RECURSIVE UpFrom(_)
\* The sums reached from the sums S along parents
UpFrom(S) ==
    LET T == S \cup UNION {ParentsOf(k) : k \in S}
    IN IF T = S THEN S ELSE UpFrom(T)

\* The sums of the loaded states that are k or an ancestor of k
AncestorsOrSelf(k) == UpFrom({k}) \cap Sums(states)

\* The loaded common ancestors of k1 and k2
CommonAncestors(k1, k2) == AncestorsOrSelf(k1) \cap AncestorsOrSelf(k2)

\* C21: for any two sums of loaded states that have a loaded common
\* ancestor, latest_common_ancestor returns a sum that is an ancestor or
\* self of both and that has no descendant which is a common ancestor of
\* both too.
LatestCommon ==
    \A k1 \in Sums(states), k2 \in Sums(states) :
        CommonAncestors(k1, k2) # {} =>
            LET r == LatestCommonAncestor(states, k1, k2)
            IN /\ r.ok
               /\ r.key \in CommonAncestors(k1, k2)
               /\ \A d \in CommonAncestors(k1, k2) \ {r.key} :
                    r.key \notin AncestorsOrSelf(d)

\* C22: for two tips whose loaded ancestries are disjoint
\* latest_common_ancestor fails, and the sum it returns when it succeeds is
\* the sum of a loaded state, so that no merge ends in the panic of
\* merge_two's unwrap.
LcaInStates ==
    /\ \A k1 \in tips : \A k2 \in tips \ {k1} :
            LET r == LatestCommonAncestor(states, k1, k2)
            IN /\ CommonAncestors(k1, k2) = {} => ~r.ok
               /\ r.ok => Contains(states, r.key)
    /\ last.op = "merge" => last.ret # "Panic"

\* The partition has two tips, made by pushing two clones of the same
\* state with different elements inserted
ForkedTips ==
    /\ Cardinality(tips) = 2
    /\ \A t \in tips : Len(StateOf(states, t).parents) = 1
    /\ \A t \in tips, u \in tips :
            /\ StateOf(states, t).parents = StateOf(states, u).parents
            /\ Contains(states, StateOf(states, t).parents[1])
            /\ StateOf(states, t).parents[1] \notin tips
            /\ t # u => StateOf(states, t).elts # StateOf(states, u).elts

\* C23: with two tips forked from the same state by inserting different
\* elements a merge is required, and a merge that returns Ok leaves one
\* tip: a new state with the two former tips as its parents, in one order
\* or the other, holding the elements on which the tips agree and those
\* only one of them inserted; the commit of this state, with the same two
\* parents, is the one new commit and is at the back of unsaved.
MergeForked ==
    [][(ForkedTips /\ last'.op = "merge" /\ last'.ret = "Ok") =>
        /\ MergeRequired(Self)
        /\ Cardinality(tips') = 1
        /\ IsReady(Self')
        /\ \A m \in tips' :
            LET st == StateOf(states', m)
                c == unsaved'[Len(unsaved')]
            IN /\ m \notin Sums(states)
               /\ states' = states \cup {st}
               /\ Len(st.parents) = 2
               /\ Range(st.parents) = tips
               /\ unsaved' = Append(unsaved, c)
               /\ c.statesum = m
               /\ c.parents = st.parents
               /\ \A t \in tips : \A u \in tips \ {t} :
                    LET a == StateOf(states, t).elts
                        b == StateOf(states, u).elts
                    IN /\ a \cap b \subseteq st.elts
                       /\ {e \in a : ~Has(b, e[1])} \subseteq st.elts
                       /\ st.elts \subseteq a \cup b]_vars

\* A merge joined two tips that had inserted different payloads for
\* element 1, and one of them element 2
MergedConflict ==
    /\ last.op = "merge" /\ last.ret = "Ok"
    /\ Cardinality(tips) = 1
    /\ \A m \in tips :
        LET st == StateOf(states, m)
        IN /\ Len(st.parents) = 2
           /\ \A t \in Range(st.parents) : Has(StateOf(states, t).elts, 1)
           /\ \E t \in Range(st.parents) : StateOf(states, t).elts = {<<1, "b">>}
           /\ \E t \in Range(st.parents) : StateOf(states, t).elts = {<<1, "a">>}
    /\ unsaved # <<>>
    /\ Len(unsaved[Len(unsaved)].parents) = 2

\* The iterations (t1, t2, pick) of the loop of merge that, run on p in
\* second now, build a commit whose statesum a state of p already has
ClashingSteps(p, now) ==
    UNION {UNION {
        {<<t1, t2, pick>> : pick \in
            {k \in {"a", "b"} :
                LET lca == LatestCommonAncestor(p.states, t1, t2)
                IN /\ lca.ok
                   /\ Contains(p.states, lca.key)
                   /\ Contains(p.states,
                        MergeCommit(StateOf(p.states, t1), StateOf(p.states, t2),
                                    StateOf(p.states, lca.key), k, now,
                                    p.tab).statesum)}}
        : t2 \in p.tips \ {t1}} : t1 \in p.tips}

\* C24: an iteration of merge whose commit has the statesum of a state
\* already in states fails and leaves the partition as it was before that
\* iteration; a merge that returns an error leaves more than one tip, in a
\* partition on which an iteration fails without changing it
MergeClash ==
    /\ [](\A now \in Nows : \A x \in ClashingSteps(Self, now) :
            LET r == MergeStep(Self, x[1], x[2], x[3], now)
            IN /\ r.ret \notin {"Ok", "Panic"}
               /\ r.p = Self
               /\ MergeRequired(r.p)
               /\ \E m \in MergeRuns(Self, now) : m.ret = "Err" /\ m.p = Self)
    /\ [][last'.op = "merge" /\ last'.ret = "Err" =>
            /\ MergeRequired(Self')
            /\ \E t1 \in tips' : \E t2 \in tips' \ {t1} : \E pick \in {"a", "b"} :
                 LET r == MergeStep(Self', t1, t2, pick, clock')
                 IN r.ret # "Ok" /\ r.p = Self']_vars

\* A merge has failed on a commit that repeats an earlier merge
MergeClashed ==
    /\ last.op = "merge" /\ last.ret = "Err"
    /\ Cardinality(tips) > 1
    /\ ClashingSteps(Self, clock) # {}
    /\ \E s \in states : Len(s.parents) = 2 /\ Range(s.parents) \subseteq tips

\* C25: after start_log and write_commit of each of the commits C1..Cn,
\* read_log succeeds and gives the receiver exactly C1..Cn in that order
LogRoundTrip ==
    phase = "logread" => last.ret = "Ok" /\ pushed = unsaved

\* Two commits were written and read back: a merge of 255 parents with text
\* as extra metadata and a commit with three changes
LogReadBack ==
    /\ phase = "logread" /\ last.ret = "Ok"
    /\ Len(pushed) = 2
    /\ Len(pushed[1].parents) = 255 /\ pushed[1].meta.extra.tag = "Text"
    /\ Len(pushed[1].meta.extra.text) = 5
    /\ Cardinality(pushed[2].changes) = 3

\* C26: read_snapshot of the bytes that write_snapshot wrote for an element
\* map succeeds and returns that map
SnapshotRoundTrip ==
    phase = "snapread" => last.ret = "Ok" /\ pushed = saved

\* A map of two elements, one of 17 bytes, was written and read back
SnapshotReadBack ==
    /\ phase = "snapread" /\ last.ret = "Ok"
    /\ Cardinality(pushed) = 2
    /\ \E e \in pushed : Len(e.data) = 17

\* The empty map was written and read back
EmptySnapshotReadBack ==
    phase = "snapread" /\ last.ret = "Ok" /\ saved = {} /\ pushed = {}

\* C30: read_log fails with a Read error on a log whose last record has
\* extra metadata of a type that is neither TT nor two NUL
ForeignRejected ==
    phase = "foreignread" => last.ret = "Read"

\* C27: unload(force) with force false and commits in unsaved returns false
\* and changes nothing; every other unload returns true and leaves states
\* and tips empty, so that the partition is not loaded and tip() fails with
\* NotReady
UnloadReleases ==
    [][last'.op = "unload" =>
        IF ~last'.flag /\ unsaved # <<>>
        THEN last'.ret = "false" /\ Self' = Self
        ELSE /\ last'.ret = "true"
             /\ states' = {} /\ tips' = {}
             /\ ~IsLoaded(Self')
             /\ ~Tip(Self').ok /\ Tip(Self').err = "NotReady"]_vars

\* A forced unload has emptied a partition that had unsaved commits
UnloadForced ==
    /\ last.op = "unload" /\ last.flag /\ last.ret = "true"
    /\ unsaved # <<>>
    /\ states = {} /\ tips = {}

\* An unload without force was refused
UnloadRefused ==
    /\ last.op = "unload" /\ ~last.flag /\ last.ret = "false"
    /\ unsaved # <<>> /\ IsReady(Self)

\* C28: a load, push_commit, push_state or write_snapshot that returns an
\* error leaves states, tips, ss_num, repo_name and the counters of the
\* snapshot policy as they were before the call
NoPartialState ==
    [][/\ last'.op \in {"load", "push_commit", "push_state", "write_snapshot"}
       /\ last'.ret \notin {"Ok", "Ok(true)", "Ok(false)"}
       => <<states, tips, ss_num, repo_name, commits, edits>>'
            = <<states, tips, ss_num, repo_name, commits, edits>>]_vars

\* The commit c changes elements as its first parent, a state of the
\* partition, has them
ReplayApplies(c) ==
    /\ Contains(states, c.parents[1])
    /\ \A ch \in c.changes : Applies(StateOf(states, c.parents[1]).elts, ch)

\* C29 as stated: the replay of a commit C whose first parent P is in states
\* and whose changes lead from P to the state C names leaves P and that
\* state in states, the state's sum in tips and no parent of C in tips; the
\* replay of a commit whose changes lead to a state with another sum fails
ReplayAddsTip ==
    [][last'.op = "replay" /\ ~last'.flag /\ ReplayApplies(last'.commit) =>
        LET c == last'.commit
            P == StateOf(states, c.parents[1])
            a == CommitApply(c, P, hashed)
        IN IF a.ok
           THEN /\ last'.ret = "Ok"
                /\ P \in states' /\ a.state \in states'
                /\ c.statesum \in tips'
                /\ tips' \cap Range(c.parents) = {}
           ELSE last'.ret = "Err"]_vars

\* C29: the same for a commit C whose state-sum is not yet in states; the
\* replay of a commit whose state-sum is in states succeeds and changes
\* nothing
ReplayNewCommit ==
    [][last'.op = "replay" /\ ~last'.flag /\ ReplayApplies(last'.commit) =>
        LET c == last'.commit
            P == StateOf(states, c.parents[1])
            a == CommitApply(c, P, hashed)
        IN IF Contains(states, c.statesum)
           THEN last'.ret = "Ok" /\ states' = states /\ tips' = tips
           ELSE IF a.ok
           THEN /\ last'.ret = "Ok"
                /\ P \in states' /\ a.state \in states'
                /\ states' = states \cup {a.state}
                /\ c.statesum \in tips'
                /\ tips' = (tips \ Range(c.parents)) \cup {c.statesum}
           ELSE last'.ret = "Err" /\ states' = states /\ tips' = tips]_vars

\* A merge commit was replayed: its state is the only tip, both parents are
\* in states
ReplayedMerge ==
    /\ last.op = "replay" /\ ~last.flag /\ last.ret = "Ok"
    /\ Len(last.commit.parents) = 2
    /\ tips = {last.commit.statesum}
    /\ \A k \in Range(last.commit.parents) : Contains(states, k)
    /\ Len(pushed) = 2

\* The replay of a commit with a sum that is not the sum of its state failed
ReplayRefused ==
    /\ last.op = "replay" /\ ~last.flag /\ last.ret = "Err"
    /\ last.commit.statesum = PhantomSum

\* C31: read_log of a log that ends where a commit ends succeeds; read_log
\* of a log whose last commit is cut short or has a wrong checksum fails,
\* after it gave the receiver every commit before the last, in order, and
\* not the last
TornTail ==
    /\ phase = "logread" => last.ret = "Ok" /\ Len(pushed) = Len(unsaved)
    /\ phase = "tornread" =>
        /\ last.ret \in {"Io", "Read"}
        /\ pushed = SubSeq(unsaved, 1, Len(unsaved) - 1)

\* The second commit of a log was cut short and the first one was delivered
TornSecond ==
    /\ phase = "tornread" /\ last.ret = "Io"
    /\ Len(unsaved) = 2 /\ pushed = <<unsaved[1]>>

\* The checksum of the second commit was wrong and the first was delivered
BadSumSecond ==
    /\ phase = "tornread" /\ last.ret = "Read"
    /\ Len(unsaved) = 2 /\ pushed = <<unsaved[1]>>

\* C32: the replay of a commit whose state-sum is in states succeeds and
\* leaves states and tips as they are
ReplayKnown ==
    [][last'.op = "replay" /\ ~last'.flag /\ Contains(states, last'.commit.statesum) =>
        last'.ret = "Ok" /\ states' = states /\ tips' = tips]_vars

\* The commit of a state that has a child was replayed: the state is in
\* states and is no tip
ReplayedInner ==
    /\ last.op = "replay" /\ ~last.flag /\ last.ret = "Ok"
    /\ Contains(states, last.commit.statesum)
    /\ last.commit.statesum \notin tips
    /\ \E s \in states : last.commit.statesum \in Range(s.parents)

ParentsDistinct ==
    \A s \in states :
        /\ \A i \in 1..Len(s.parents) : \A j \in 1..Len(s.parents) :
              s.parents[i] = s.parents[j] => i = j
        /\ s.statesum \notin Range(s.parents)

\* The numbers of the snapshot files a step created
NewSnapshots == DOMAIN ss_files' \ DOMAIN ss_files

\* A step of write or write_snapshot leaves every file there was as it was,
\* and creates at most one log file, at the first number from
\* ss_cl_len(ss_num) on that no log file of ss_num has, and at most one
\* snapshot file, at the first number above ss_num that no snapshot has
FilesKept ==
    /\ \A k \in DOMAIN cl_files : k \in DOMAIN cl_files' /\ cl_files'[k] = cl_files[k]
    /\ \A n \in DOMAIN ss_files : n \in DOMAIN ss_files' /\ ss_files'[n] = ss_files[n]
    /\ Cardinality(NewSlots) <= 1
    /\ \A k \in NewSlots :
          /\ k[1] = ss_num
          /\ k[2] >= SsClLen(Io, ss_num)
          /\ \A n \in SsClLen(Io, ss_num)..(k[2] - 1) : <<ss_num, n>> \in DOMAIN cl_files
    /\ Cardinality(NewSnapshots) <= 1
    /\ \A n \in NewSnapshots :
          /\ n > ss_num
          /\ \A k \in (ss_num + 1)..(n - 1) : k \in DOMAIN ss_files

\* The call of the step got no writer: it failed before it created a file
NoWriter == last'.ret = "IoErr" /\ last'.trace = <<>>

\* C35: write and write_snapshot change no file that exists; a write with
\* commits in unsaved creates one log file, at the first free number from
\* ss_cl_len(ss_num) on, unless new_ss_cl fails, and no log file otherwise;
\* a write_snapshot creates one snapshot file unless the partition is not
\* ready or new_ss fails
SlotsFreshWhenOpened ==
    [][last'.op \in {"write", "write_snapshot"} =>
        /\ FilesKept
        /\ IF last'.op = "write" /\ unsaved # <<>> /\ ~NoWriter
           THEN Cardinality(NewSlots) = 1 ELSE NewSlots = {}
        /\ last'.op = "write_snapshot" =>
              IF IsReady(Self) /\ ~NoWriter
              THEN Cardinality(NewSnapshots) = 1 ELSE NewSnapshots = {}]_vars

\* A write put its commits into the second log file of snapshot number 1,
\* the first being the file of a write that failed part-way
SecondLogWritten ==
    /\ last.op = "write" /\ last.ret = "Ok(true)"
    /\ ss_num = 1 /\ DOMAIN ss_files = {0, 1}
    /\ DOMAIN cl_files = {<<1, 0>>, <<1, 1>>}
    /\ cl_files[<<1, 0>>].torn # <<>>
    /\ last.trace[1] = Event("log_create", 1, 0)

\* The same with a new file for every call: every write with commits in
\* unsaved creates one log file and every write_snapshot one snapshot file
SlotsFresh ==
    [][last'.op \in {"write", "write_snapshot"} =>
        /\ FilesKept
        /\ last'.op = "write" /\ unsaved # <<>> => Cardinality(NewSlots) = 1
        /\ last'.op = "write_snapshot" => Cardinality(NewSnapshots) = 1]_vars

Copies(c) ==
    Cardinality(UNION {{<<k, i>> : i \in {j \in 1..Len(cl_files[k].commits) :
                                            cl_files[k].commits[j] = c}} :
                       k \in DOMAIN cl_files})
Pushes(c) == Cardinality({i \in 1..Len(pushed) : pushed[i] = c})

\* C37: whatever writes failed before, no commit is written completely
\* more often than it was pushed, a commit a failed write left torn is
\* still in unsaved or complete in a later file, and once unsaved is empty
\* the complete commits of the log files, read in the order of their
\* numbers, are the commits pushed, each as often as it was pushed
FlushedOnce ==
    /\ \A c \in Range(pushed) : Copies(c) <= Pushes(c)
    /\ \A k \in DOMAIN cl_files : cl_files[k].torn # <<>> =>
          \/ unsaved # <<>> /\ unsaved[1] = cl_files[k].torn[1]
          \/ \E j \in DOMAIN cl_files :
                /\ k[1] < j[1] \/ (k[1] = j[1] /\ k[2] < j[2])
                /\ cl_files[j].commits # <<>>
                /\ cl_files[j].commits[1] = cl_files[k].torn[1]
    /\ unsaved = <<>> =>
          /\ Logged(Io) = pushed
          /\ \A c \in Range(pushed) : Copies(c) = Pushes(c)

\* A write of two commits stopped in the second, a snapshot was written,
\* and the next write put the second commit into a log of the new number
RetriedAfterTorn ==
    /\ last.op = "write" /\ last.ret = "Ok(true)"
    /\ unsaved = <<>> /\ Len(pushed) = 2 /\ pushed[1] # pushed[2]
    /\ DOMAIN cl_files = {<<0, 0>>, <<1, 0>>}
    /\ cl_files[<<0, 0>>].commits = <<pushed[1]>>
    /\ cl_files[<<0, 0>>].torn = <<pushed[2]>>
    /\ cl_files[<<1, 0>>].commits = <<pushed[2]>>

\* C38: every commit in unsaved has its state and the state of its first
\* parent in states, and no two commits in unsaved have the same state-sum
UnsavedSound ==
    /\ \A i \in 1..Len(unsaved) :
          /\ Contains(states, unsaved[i].statesum)
          /\ Contains(states, unsaved[i].parents[1])
    /\ \A i \in 1..Len(unsaved) : \A j \in 1..Len(unsaved) :
          unsaved[i].statesum = unsaved[j].statesum => i = j

\* C39: an unload with force leaves unsaved, ss_num, repo_name and the
\* policy counters as they were, and a write on a partition without states
\* that meets no I/O error writes the commits of unsaved, in order, to one
\* new log file and empties unsaved
UnloadKeepsQueue ==
    /\ [][last'.op = "unload" /\ last'.flag =>
            /\ states' = {} /\ tips' = {}
            /\ UNCHANGED <<unsaved, ss_num, repo_name, commits, edits, part_id,
                           ss_files, cl_files>>]_vars
    /\ [][(last'.op = "write" /\ states = {} /\ unsaved # <<>>
            /\ last'.ret \in {"Ok(true)", "Ok(false)"}) =>
            /\ last'.ret = "Ok(true)"
            /\ unsaved' = <<>>
            /\ Cardinality(NewSlots) = 1
            /\ \A k \in NewSlots : cl_files'[k].commits = unsaved /\ k[1] = ss_num
            /\ Logged(Io') = pushed]_vars

\* Two commits were pushed, the partition was unloaded with force, and a
\* write afterwards put both into a log file
WrittenAfterUnload ==
    /\ last.op = "write" /\ last.ret = "Ok(true)"
    /\ states = {} /\ tips = {} /\ unsaved = <<>>
    /\ Len(pushed) = 2
    /\ \E k \in DOMAIN cl_files : cl_files[k].commits = pushed

MergedNothing ==
    /\ last.op = "merge" /\ last.ret = "Ok"
    /\ Cardinality(tips) = 1 /\ Cardinality(states) > 1
    /\ \A i \in 1..Len(unsaved) : Len(unsaved[i].parents) = 1
====
